---- MODULE Spec2Model ----
(***************************************************************************)
(* The Mullvad VPN daemon: the supervisor (mullvad-daemon/src/lib.rs) and  *)
(* the tunnel state machine it commands (talpid-core,                      *)
(* tunnel_state_machine/disconnecting_state.rs and talpid-types/tunnel.rs).*)
(*                                                                         *)
(* The supervisor handles one event of its queue per step.  Tunnel state   *)
(* reports and the commands synthesized by reconnect timers pass through   *)
(* the queue rx.  Events of management clients and shutdown signals have   *)
(* no cause inside the system, so one that is handled at some point can    *)
(* always have been enqueued just behind the event handled before it; the  *)
(* model therefore lets them arrive at the moment they are handled.        *)
(***************************************************************************)
EXTENDS Integers, Sequences, FiniteSets, TLC

VARIABLES
    target_state,    \* Daemon.target_state
    tunnel_state,    \* Daemon.tunnel_state, the last observed transition
    state,           \* Daemon.state, the DaemonExecutionState
    settings,        \* Daemon.settings, the in-memory Settings
    disk,            \* the settings file
    current_relay,   \* Daemon.current_relay
    loop,            \* position of Daemon::run: init, running, ok, err
    rx,              \* Daemon.rx: queued tunnel state reports and timer commands
    timers,          \* reconnect timer threads still asleep
    cmdq,            \* the TunnelCommand channel to the state machine
    commanded,       \* the last command sent other than AllowLan
    ts,              \* the state of the tunnel state machine
    alive,           \* a tunnel process is alive
    dis,             \* what the Disconnecting state has consumed since its entry
    event,           \* the event the supervisor handled in the last step, if any
    effects,         \* what that handling did, in order
    clients,         \* number of external events handled so far
    wire,            \* a TunnelStateTransition on its way through the wire format
    builder,         \* an OpenVpnBuilder and the arguments it was asked for
    dns,             \* the Linux DNS backend selection: environment and outcome
    windns,          \* the Windows DNS monitor: backup file, system DNS, WinDns
    service          \* the Windows service: its two threads and its status reports

vars == <<target_state, tunnel_state, state, settings, disk, current_relay, loop,
          rx, timers, cmdq, commanded, ts, alive, dis, event, effects, clients,
          wire, builder, dns, windns, service>>

\* The components outside the daemon's two threads; each has a specification
\* of its own and is left alone by the others
components == <<wire, builder, dns, windns, service>>

daemon_vars == <<target_state, tunnel_state, state, settings, disk, current_relay,
                 loop, timers, commanded, clients>>

\* A step that is not the supervisor's leaves no handled event behind
NotHandling ==
    /\ event' = [kind |-> "none", arg |-> <<>>, src |-> "none", pre |-> <<>>]
    /\ effects' = <<>>
    /\ UNCHANGED components

----------------------------------------------------------------------------
(* Bounds of the model                                                     *)

MaxClients == 2      \* external events (management commands, signals) per run
MaxCmdQ == 1         \* tunnel commands in flight
MaxRx == 1           \* events queued for the supervisor
MaxTimers == 1       \* reconnect timers asleep at once

----------------------------------------------------------------------------
(* Values                                                                  *)

None == <<>>
Some(x) == <<x>>
Option(S) == {None} \cup {Some(x) : x \in S}

Tokens == {"t1", "t2"}

NormalSe == [type |-> "Normal", location |-> "se"]
NormalXx == [type |-> "Normal", location |-> "xx"]
Custom   == [type |-> "CustomTunnelEndpoint", location |-> "host"]
RelaySettingsSet == {NormalSe, NormalXx, Custom}

MssfixValues == {1400}

ReconnectDelay == 60

Secured == "Secured"
Unsecured == "Unsecured"
TargetState == {Secured, Unsecured}

Running == "Running"
Exiting == "Exiting"
Finished == "Finished"

\* talpid_types::tunnel::BlockReason
AuthFailed(msg) == [reason |-> "auth_failed", details |-> msg]
Ipv6Unavailable == [reason |-> "ipv6_unavailable", details |-> None]
SetSecurityPolicyError == [reason |-> "set_security_policy_error", details |-> None]
StartTunnelError == [reason |-> "start_tunnel_error", details |-> None]
NoMatchingRelay == [reason |-> "no_matching_relay", details |-> None]
AuthMessages == Option({"expired"})

\* talpid_types::tunnel::TunnelStateTransition
Disconnected == [state |-> "disconnected", details |-> None]
Connecting == [state |-> "connecting", details |-> None]
Connected == [state |-> "connected", details |-> None]
Disconnecting(action) == [state |-> "disconnecting", details |-> Some(action)]
Blocked(reason) == [state |-> "blocked", details |-> Some(reason)]

\* TunnelStateTransition::is_blocked
is_blocked(t) == t.state = "blocked"

\* talpid_core::tunnel_state_machine::TunnelCommand
Connect(parameters) == [cmd |-> "Connect", parameters |-> parameters]
Disconnect == [cmd |-> "Disconnect"]
Block(reason, allow_lan) == [cmd |-> "Block", reason |-> reason, allow_lan |-> allow_lan]
AllowLan(allow_lan) == [cmd |-> "AllowLan", allow_lan |-> allow_lan]

----------------------------------------------------------------------------
(* DaemonExecutionState                                                    *)

\* shutdown without the arm for a tunnel that is already down
shutdown_exiting_only(s, t) ==
    IF s = Running /\ t # Disconnected THEN Exiting ELSE s

\* shutdown finishing when it is asked for again in Exiting
shutdown_twice_finishes(s, t) ==
    IF s = Finished THEN s
    ELSE IF t = Disconnected \/ s = Exiting THEN Finished ELSE Exiting

shutdown(s, t) ==
    IF s = Running THEN (IF t = Disconnected THEN Finished ELSE Exiting) ELSE s

\* disconnected finishing from Running as well
disconnected_any(s) == IF s \in {Exiting, Running} THEN Finished ELSE s

disconnected(s) == IF s = Exiting THEN Finished ELSE s

is_running(s) == s = Running

----------------------------------------------------------------------------
(* Settings.  A setter compares, stores and saves; it returns "changed",   *)
(* "same" or, when the save fails, "error" with the old value kept.        *)

DefaultSettings(token, relay, auto) ==
    [account_token |-> token, relay_settings |-> relay, allow_lan |-> FALSE,
     auto_connect |-> auto, enable_ipv6 |-> FALSE, openvpn_mssfix |-> None]

SettingsSet(c, field, value, save_ok) ==
    IF c.settings[field] = value THEN [c EXCEPT !.res = "same"]
    ELSE IF save_ok
         THEN [c EXCEPT !.settings = [c.settings EXCEPT ![field] = value],
                        !.disk = [c.settings EXCEPT ![field] = value],
                        !.eff = Append(c.eff, [e |-> "save"]),
                        !.res = "changed"]
         ELSE [c EXCEPT !.eff = Append(c.eff, [e |-> "save_failed"]),
                        !.res = "error"]

\* RelaySelector::get_tunnel_endpoint and CustomTunnelEndpoint::to_tunnel_endpoint
RelayFor(relay_settings) ==
    IF relay_settings = NormalSe THEN Some("se-relay") ELSE None

EndpointFor(relay_settings) ==
    IF relay_settings = NormalSe THEN Some("se-relay")
    ELSE IF relay_settings = Custom THEN Some("host")
    ELSE None

----------------------------------------------------------------------------
(* The supervisor.  A handler maps a context c, the daemon's fields and    *)
(* the effects so far, to the context after it.                            *)

Ctx ==
    [target_state |-> target_state, tunnel_state |-> tunnel_state, state |-> state,
     settings |-> settings, disk |-> disk, current_relay |-> current_relay,
     timers |-> timers, eff |-> <<>>, res |-> "none"]

Do(c, e) == [c EXCEPT !.eff = Append(c.eff, e)]

send_tunnel_command(c, command) == Do(c, [e |-> "send", v |-> command])

oneshot_send(c, t) == Do(c, [e |-> "reply", v |-> t])

notify_settings(c) == Do(c, [e |-> "notify_settings", v |-> c.settings])

notify_new_state(c, t) == Do(c, [e |-> "notify_new_state", v |-> t])

build_tunnel_parameters(c, account_token, endpoint) ==
    [endpoint |-> endpoint,
     options |-> [enable_ipv6 |-> c.settings.enable_ipv6,
                  mssfix |-> c.settings.openvpn_mssfix],
     username |-> account_token,
     allow_lan |-> c.settings.allow_lan]

\* connect_tunnel that has the old tunnel taken down first
connect_tunnel_disconnect_first(c, account_token) ==
    LET rs == c.settings.relay_settings
        endpoint == EndpointFor(rs)
        c1 == IF rs.type = "Normal" /\ endpoint # None
              THEN [c EXCEPT !.current_relay = RelayFor(rs)]
              ELSE c
        command == IF endpoint # None
                   THEN Connect(build_tunnel_parameters(c1, account_token, endpoint[1]))
                   ELSE Block(NoMatchingRelay, c1.settings.allow_lan)
    IN send_tunnel_command(send_tunnel_command(c1, Disconnect), command)

connect_tunnel(c, account_token) ==
    LET rs == c.settings.relay_settings
        endpoint == EndpointFor(rs)
        c1 == IF rs.type = "Normal" /\ endpoint # None
              THEN [c EXCEPT !.current_relay = RelayFor(rs)]
              ELSE c
        command == IF endpoint # None
                   THEN Connect(build_tunnel_parameters(c1, account_token, endpoint[1]))
                   ELSE Block(NoMatchingRelay, c1.settings.allow_lan)
    IN send_tunnel_command(c1, command)

disconnect_tunnel(c) == send_tunnel_command(c, Disconnect)

\* reconnect_tunnel without the test of the target state
reconnect_tunnel_any_target(c) ==
    IF c.settings.account_token # None
    THEN connect_tunnel(c, c.settings.account_token[1])
    ELSE c

reconnect_tunnel(c) ==
    IF c.target_state = Secured /\ c.settings.account_token # None
    THEN connect_tunnel(c, c.settings.account_token[1])
    ELSE c

\* set_target_state(Unsecured), also the call the Secured branch makes when no
\* account token is set
\* set_target_state(Unsecured) that disconnects and keeps the old target
set_target_state_unsecured_keep(c) ==
    IF Unsecured # c.target_state \/ is_blocked(c.tunnel_state)
    THEN [disconnect_tunnel(c) EXCEPT !.res = "Ok"]
    ELSE [c EXCEPT !.res = "Ok"]

set_target_state_unsecured(c) ==
    IF Unsecured # c.target_state \/ is_blocked(c.tunnel_state)
    THEN [disconnect_tunnel([c EXCEPT !.target_state = Unsecured]) EXCEPT !.res = "Ok"]
    ELSE [c EXCEPT !.res = "Ok"]

\* set_target_state that reports the missing token and leaves the target Secured
set_target_state_no_reset(c, new_state) ==
    IF new_state = Unsecured THEN set_target_state_unsecured(c)
    ELSE IF new_state # c.target_state \/ is_blocked(c.tunnel_state)
         THEN LET c1 == [c EXCEPT !.target_state = new_state]
              IN IF c1.settings.account_token # None
                 THEN [connect_tunnel(c1, c1.settings.account_token[1])
                          EXCEPT !.res = "Ok"]
                 ELSE [c1 EXCEPT !.res = "Err"]
         ELSE [c EXCEPT !.res = "Ok"]

\* set_target_state that acts only when the target changes
set_target_state_changed_only(c, new_state) ==
    IF new_state = Unsecured THEN set_target_state_unsecured(c)
    ELSE IF new_state # c.target_state
         THEN LET c1 == [c EXCEPT !.target_state = new_state]
              IN IF c1.settings.account_token # None
                 THEN [connect_tunnel(c1, c1.settings.account_token[1])
                          EXCEPT !.res = "Ok"]
                 ELSE [set_target_state_unsecured(c1) EXCEPT !.res = "Err"]
         ELSE [c EXCEPT !.res = "Ok"]

set_target_state(c, new_state) ==
    IF new_state = Unsecured THEN set_target_state_unsecured(c)
    ELSE IF new_state # c.target_state \/ is_blocked(c.tunnel_state)
         THEN LET c1 == [c EXCEPT !.target_state = new_state]
              IN IF c1.settings.account_token # None
                 THEN [connect_tunnel(c1, c1.settings.account_token[1])
                          EXCEPT !.res = "Ok"]
                 ELSE [set_target_state_unsecured(c1) EXCEPT !.res = "Err"]
         ELSE [c EXCEPT !.res = "Ok"]

\* on_set_target_state without the test of the execution state
on_set_target_state_always(c, new_target_state) ==
    LET c1 == set_target_state(c, new_target_state)
    IN oneshot_send(c1, c1.res)

on_set_target_state(c, new_target_state) ==
    IF is_running(c.state)
    THEN LET c1 == set_target_state(c, new_target_state)
         IN oneshot_send(c1, c1.res)
    ELSE oneshot_send(c, "Ok")

\* on_get_state that answers with the state the daemon started with
on_get_state_initial(c) == oneshot_send(c, Disconnected)

on_get_state(c) == oneshot_send(c, c.tunnel_state)

on_get_current_location(c) ==
    IF c.current_relay # None
    THEN oneshot_send(c, [ip |-> c.current_relay[1], mullvad_exit_ip |-> TRUE])
    ELSE Do(c, [e |-> "geoip_request"])

on_get_settings(c) == oneshot_send(c, c.settings)

\* GetAccountData, GetRelayLocations, GetVersionInfo, GetCurrentVersion
on_query(c, kind) == oneshot_send(c, kind)

log_error(c) == Do(c, [e |-> "log_error"])

\* on_set_account that restarts the tunnel also when the token was cleared
on_set_account_restart(c, account_token, save_ok) ==
    LET c1 == SettingsSet(c, "account_token", account_token, save_ok)
    IN IF c1.res = "error" THEN log_error(c1)
       ELSE LET c2 == oneshot_send(c1, "unit")
            IN IF c1.res = "changed"
               THEN reconnect_tunnel(notify_settings(c2))
               ELSE c2

\* on_set_account that sends the tunnel command before it replies and
\* broadcasts
on_set_account_command_first(c, account_token, save_ok) ==
    LET account_token_cleared == account_token = None
        c1 == SettingsSet(c, "account_token", account_token, save_ok)
    IN IF c1.res = "error" THEN log_error(c1)
       ELSE IF c1.res = "changed"
            THEN LET c2 == IF account_token_cleared
                           THEN set_target_state(c1, Unsecured)
                           ELSE reconnect_tunnel(c1)
                 IN notify_settings(oneshot_send(c2, "unit"))
            ELSE oneshot_send(c1, "unit")

on_set_account(c, account_token, save_ok) ==
    LET account_token_cleared == account_token = None
        c1 == SettingsSet(c, "account_token", account_token, save_ok)
    IN IF c1.res = "error" THEN log_error(c1)
       ELSE LET c2 == oneshot_send(c1, "unit")
            IN IF c1.res = "changed"
               THEN LET c3 == notify_settings(c2)
                    IN IF account_token_cleared
                       THEN set_target_state(c3, Unsecured)
                       ELSE reconnect_tunnel(c3)
               ELSE c2

\* on_update_relay_settings that tells no subscriber
on_update_relay_settings_silent(c, update, save_ok) ==
    LET c1 == SettingsSet(c, "relay_settings", update, save_ok)
    IN IF c1.res = "error" THEN log_error(c1)
       ELSE LET c2 == oneshot_send(c1, "unit")
            IN IF c1.res = "changed" THEN reconnect_tunnel(c2) ELSE c2

on_update_relay_settings(c, update, save_ok) ==
    LET c1 == SettingsSet(c, "relay_settings", update, save_ok)
    IN IF c1.res = "error" THEN log_error(c1)
       ELSE LET c2 == oneshot_send(c1, "unit")
            IN IF c1.res = "changed"
               THEN reconnect_tunnel(notify_settings(c2))
               ELSE c2

\* on_set_allow_lan that restarts the tunnel like the other setters
on_set_allow_lan_restart(c, allow_lan, save_ok) ==
    LET c1 == SettingsSet(c, "allow_lan", allow_lan, save_ok)
    IN IF c1.res = "error" THEN log_error(c1)
       ELSE LET c2 == oneshot_send(c1, "unit")
            IN IF c1.res = "changed"
               THEN reconnect_tunnel(notify_settings(c2))
               ELSE c2

on_set_allow_lan(c, allow_lan, save_ok) ==
    LET c1 == SettingsSet(c, "allow_lan", allow_lan, save_ok)
    IN IF c1.res = "error" THEN log_error(c1)
       ELSE LET c2 == oneshot_send(c1, "unit")
            IN IF c1.res = "changed"
               THEN send_tunnel_command(notify_settings(c2), AllowLan(allow_lan))
               ELSE c2

\* on_set_auto_connect that broadcasts the settings before it changes them
on_set_auto_connect_notify_first(c, auto_connect, save_ok) ==
    LET c1 == SettingsSet(notify_settings(c), "auto_connect", auto_connect, save_ok)
    IN IF c1.res = "error" THEN log_error(c1) ELSE oneshot_send(c1, "unit")

on_set_auto_connect(c, auto_connect, save_ok) ==
    LET c1 == SettingsSet(c, "auto_connect", auto_connect, save_ok)
    IN IF c1.res = "error" THEN log_error(c1)
       ELSE LET c2 == oneshot_send(c1, "unit")
            IN IF c1.res = "changed" THEN notify_settings(c2) ELSE c2

\* on_set_openvpn_mssfix that restarts the tunnel with the new option
on_set_openvpn_mssfix_restart(c, mssfix_arg, save_ok) ==
    LET c1 == SettingsSet(c, "openvpn_mssfix", mssfix_arg, save_ok)
    IN IF c1.res = "error" THEN log_error(c1)
       ELSE LET c2 == oneshot_send(c1, "unit")
            IN IF c1.res = "changed"
               THEN reconnect_tunnel(notify_settings(c2))
               ELSE c2

on_set_openvpn_mssfix(c, mssfix_arg, save_ok) ==
    LET c1 == SettingsSet(c, "openvpn_mssfix", mssfix_arg, save_ok)
    IN IF c1.res = "error" THEN log_error(c1)
       ELSE LET c2 == oneshot_send(c1, "unit")
            IN IF c1.res = "changed" THEN notify_settings(c2) ELSE c2

\* on_set_enable_ipv6 replying also when the settings could not be saved
on_set_enable_ipv6_reply_on_error(c, enable_ipv6, save_ok) ==
    LET c1 == SettingsSet(c, "enable_ipv6", enable_ipv6, save_ok)
        c2 == oneshot_send(c1, "unit")
    IN IF c1.res = "error" THEN log_error(c2)
       ELSE IF c1.res = "changed"
            THEN reconnect_tunnel(notify_settings(c2))
            ELSE c2

\* on_set_enable_ipv6 restarting the tunnel whether the value changed or not
on_set_enable_ipv6_always(c, enable_ipv6, save_ok) ==
    LET c1 == SettingsSet(c, "enable_ipv6", enable_ipv6, save_ok)
    IN IF c1.res = "error" THEN log_error(c1)
       ELSE LET c2 == oneshot_send(c1, "unit")
            IN IF c1.res = "changed"
               THEN reconnect_tunnel(notify_settings(c2))
               ELSE reconnect_tunnel(c2)

on_set_enable_ipv6(c, enable_ipv6, save_ok) ==
    LET c1 == SettingsSet(c, "enable_ipv6", enable_ipv6, save_ok)
    IN IF c1.res = "error" THEN log_error(c1)
       ELSE LET c2 == oneshot_send(c1, "unit")
            IN IF c1.res = "changed"
               THEN reconnect_tunnel(notify_settings(c2))
               ELSE c2

handle_trigger_shutdown_event(c) ==
    disconnect_tunnel([c EXCEPT !.state = shutdown(c.state, c.tunnel_state)])

schedule_reconnect(c) ==
    Do([c EXCEPT !.timers = c.timers + 1], [e |-> "schedule_reconnect", v |-> ReconnectDelay])

\* handle_tunnel_state_transition scheduling a reconnect for every Blocked
handle_tunnel_state_transition_any_block(c, t) ==
    LET c1 == IF t = Disconnected
              THEN [c EXCEPT !.state = disconnected(c.state), !.current_relay = None]
              ELSE IF is_blocked(t) THEN schedule_reconnect(c) ELSE c
    IN notify_new_state([c1 EXCEPT !.tunnel_state = t], t)

handle_tunnel_state_transition(c, t) ==
    LET c1 == IF t = Disconnected
              THEN [c EXCEPT !.state = disconnected(c.state), !.current_relay = None]
              ELSE IF is_blocked(t) /\ t.details[1].reason = "auth_failed"
                   THEN schedule_reconnect(c)
                   ELSE c
    IN notify_new_state([c1 EXCEPT !.tunnel_state = t], t)

----------------------------------------------------------------------------
(* The tunnel state machine                                                *)

\* AfterDisconnect
AfterNothing == [kind |-> "Nothing"]
AfterBlock(reason, allow_lan) ==
    [kind |-> "Block", reason |-> reason, allow_lan |-> allow_lan]
AfterReconnect(tunnel_parameters) ==
    [kind |-> "Reconnect", parameters |-> tunnel_parameters]

\* action that tells a block from the rest only
action_block_or_nothing(after) ==
    IF after.kind = "Block" THEN "block" ELSE "nothing"

\* AfterDisconnect::action
action(after) ==
    IF after.kind = "Nothing" THEN "nothing"
    ELSE IF after.kind = "Block" THEN "block"
    ELSE "reconnect"

DisconnectedState == [name |-> "Disconnected"]
ConnectingState(p) == [name |-> "Connecting", parameters |-> p]
ConnectedState(p) == [name |-> "Connected", parameters |-> p]
DisconnectingState(after) == [name |-> "Disconnecting", after_disconnect |-> after]
BlockedState(reason, allow_lan) ==
    [name |-> "Blocked", reason |-> reason, allow_lan |-> allow_lan]

\* The error a closed command channel yields
ChannelError == [cmd |-> "Err"]

\* handle_commands whose Block arm lacks the Disconnect case
handle_commands_block_kept(after_disconnect, ev) ==
    IF after_disconnect.kind = "Nothing"
    THEN IF ev.cmd = "Connect" THEN AfterReconnect(ev.parameters)
         ELSE IF ev.cmd = "Block" THEN AfterBlock(ev.reason, ev.allow_lan)
         ELSE AfterNothing
    ELSE IF after_disconnect.kind = "Block"
    THEN IF ev.cmd = "Connect" THEN AfterReconnect(ev.parameters)
         ELSE IF ev.cmd = "Block" THEN AfterBlock(ev.reason, ev.allow_lan)
         ELSE after_disconnect
    ELSE IF ev.cmd = "AllowLan"
         THEN AfterReconnect([after_disconnect.parameters
                                EXCEPT !.allow_lan = ev.allow_lan])
         ELSE IF ev.cmd = "Connect" THEN AfterReconnect(ev.parameters)
         ELSE IF ev.cmd = "Block" THEN AfterBlock(ev.reason, ev.allow_lan)
         ELSE AfterNothing

\* DisconnectingState::handle_commands, for one polled event
\* handle_commands whose Reconnect arm lacks the AllowLan case
handle_commands_allow_lan_dropped(after_disconnect, ev) ==
    IF after_disconnect.kind = "Nothing"
    THEN IF ev.cmd = "Connect" THEN AfterReconnect(ev.parameters)
         ELSE IF ev.cmd = "Block" THEN AfterBlock(ev.reason, ev.allow_lan)
         ELSE AfterNothing
    ELSE IF after_disconnect.kind = "Block"
    THEN IF ev.cmd = "Connect" THEN AfterReconnect(ev.parameters)
         ELSE IF ev.cmd = "Disconnect" THEN AfterNothing
         ELSE IF ev.cmd = "Block" THEN AfterBlock(ev.reason, ev.allow_lan)
         ELSE after_disconnect
    ELSE IF ev.cmd = "AllowLan" THEN after_disconnect
         ELSE IF ev.cmd = "Connect" THEN AfterReconnect(ev.parameters)
         ELSE IF ev.cmd = "Block" THEN AfterBlock(ev.reason, ev.allow_lan)
         ELSE AfterNothing

\* handle_commands whose Reconnect arm lacks the Err case
handle_commands_error_kept(after_disconnect, ev) ==
    IF after_disconnect.kind = "Nothing"
    THEN IF ev.cmd = "Connect" THEN AfterReconnect(ev.parameters)
         ELSE IF ev.cmd = "Block" THEN AfterBlock(ev.reason, ev.allow_lan)
         ELSE AfterNothing
    ELSE IF after_disconnect.kind = "Block"
    THEN IF ev.cmd = "Connect" THEN AfterReconnect(ev.parameters)
         ELSE IF ev.cmd = "Disconnect" THEN AfterNothing
         ELSE IF ev.cmd = "Block" THEN AfterBlock(ev.reason, ev.allow_lan)
         ELSE after_disconnect
    ELSE IF ev.cmd = "AllowLan"
         THEN AfterReconnect([after_disconnect.parameters
                                EXCEPT !.allow_lan = ev.allow_lan])
         ELSE IF ev.cmd = "Connect" THEN AfterReconnect(ev.parameters)
         ELSE IF ev.cmd = "Block" THEN AfterBlock(ev.reason, ev.allow_lan)
         ELSE IF ev.cmd = "Err" THEN after_disconnect
         ELSE AfterNothing

\* handle_commands that keeps the intent Disconnecting was entered with
handle_commands_intent_kept(after_disconnect, ev) == after_disconnect

handle_commands(after_disconnect, ev) ==
    IF after_disconnect.kind = "Nothing"
    THEN IF ev.cmd = "Connect" THEN AfterReconnect(ev.parameters)
         ELSE IF ev.cmd = "Block" THEN AfterBlock(ev.reason, ev.allow_lan)
         ELSE AfterNothing
    ELSE IF after_disconnect.kind = "Block"
    THEN IF ev.cmd = "Connect" THEN AfterReconnect(ev.parameters)
         ELSE IF ev.cmd = "Disconnect" THEN AfterNothing
         ELSE IF ev.cmd = "Block" THEN AfterBlock(ev.reason, ev.allow_lan)
         ELSE after_disconnect
    ELSE IF ev.cmd = "AllowLan"
         THEN AfterReconnect([after_disconnect.parameters
                                EXCEPT !.allow_lan = ev.allow_lan])
         ELSE IF ev.cmd = "Connect" THEN AfterReconnect(ev.parameters)
         ELSE IF ev.cmd = "Block" THEN AfterBlock(ev.reason, ev.allow_lan)
         ELSE AfterNothing

\* The state each state's enter returns and the transition it reports
Report(s) ==
    IF s.name = "Disconnected" THEN Disconnected
    ELSE IF s.name = "Connecting" THEN Connecting
    ELSE IF s.name = "Connected" THEN Connected
    ELSE IF s.name = "Disconnecting" THEN Disconnecting(action(s.after_disconnect))
    ELSE Blocked(s.reason)

\* DisconnectingState::after_disconnect
after_disconnect(after) ==
    IF after.kind = "Nothing" THEN DisconnectedState
    ELSE IF after.kind = "Block" THEN BlockedState(after.reason, after.allow_lan)
    ELSE ConnectingState(after.parameters)

----------------------------------------------------------------------------
(* Initial state: Daemon::new, with the settings Settings::load returns    *)

NoEvent == [kind |-> "none", arg |-> None, src |-> "none", pre |-> None]

\* Nothing consumed: the state machine is not in Disconnecting and did not just
\* leave it.  entry is the intent Disconnecting was entered with, last the last
\* Connect, Disconnect or Block consumed there, lan the last AllowLan consumed
\* after that, closed whether the channel error was seen, exited whether the
\* current state is the one entered when the tunnel had exited.
NoDis ==
    [entry |-> AfterNothing, last |-> None, lan |-> None, closed |-> FALSE,
     exited |-> FALSE]

\* A component that is not under consideration
Unused == <<>>

\* Daemon::new, given what Settings::load returned
DaemonInit(loaded) ==
    /\ settings = loaded
    /\ disk = settings
    /\ target_state = Unsecured
    /\ tunnel_state = Disconnected
    /\ state = Running
    /\ current_relay = None
    /\ loop = "init"
    /\ rx = <<>>
    /\ timers = 0
    /\ cmdq = <<>>
    /\ commanded = "none"
    /\ ts = DisconnectedState
    /\ alive = FALSE
    /\ dis = NoDis
    /\ event = NoEvent
    /\ effects = <<>>
    /\ clients = 0

Init ==
    /\ \E token \in {None, Some("t1")}, relay \in {NormalSe, NormalXx},
          auto \in BOOLEAN :
          DaemonInit(DefaultSettings(token, relay, auto))
    /\ wire = Unused
    /\ builder = Unused
    /\ dns = Unused
    /\ windns = Unused
    /\ service = Unused

----------------------------------------------------------------------------
(* Steps of the supervisor                                                 *)

\* The tunnel commands among the effects, in the order sent
Sent(eff) ==
    LET sends == SelectSeq(eff, LAMBDA x : x.e = "send")
    IN [i \in 1..Len(sends) |-> sends[i].v]

\* The last of the commands that is not AllowLan, else what it was
LastCommanded(commands, before) ==
    LET changing == SelectSeq(commands, LAMBDA x : x.cmd # "AllowLan")
    IN IF changing = <<>> THEN before ELSE changing[Len(changing)].cmd

\* The daemon's fields as the handler found them
Pre ==
    [target_state |-> target_state, tunnel_state |-> tunnel_state, state |-> state,
     settings |-> settings, disk |-> disk, current_relay |-> current_relay,
     timers |-> timers]

Handled(kind, arg, src) == [kind |-> kind, arg |-> arg, src |-> src, pre |-> Pre]

\* The daemon's fields after a handler, its commands on the channel.  A
\* handler that sends or schedules runs only while there is room for one more
\* command or timer; what it then sends or schedules is not limited.
Commit(c, e, next_loop) ==
    /\ target_state' = c.target_state
    /\ tunnel_state' = c.tunnel_state
    /\ state' = c.state
    /\ settings' = c.settings
    /\ disk' = c.disk
    /\ current_relay' = c.current_relay
    /\ timers' = c.timers
    /\ c.timers # timers => timers < MaxTimers
    /\ cmdq' = cmdq \o Sent(c.eff)
    /\ Sent(c.eff) # <<>> => Len(cmdq) < MaxCmdQ
    /\ commanded' = LastCommanded(Sent(c.eff), commanded)
    /\ effects' = c.eff
    /\ event' = e
    /\ loop' = next_loop
    /\ UNCHANGED <<ts, alive, dis>>
    /\ UNCHANGED components

\* Daemon::run after handle_event returned Ok
AfterEvent(c) == IF c.state = Finished THEN "ok" ELSE "running"

\* An event of a management client or a signal is received and handled
External(c, e) ==
    /\ loop = "running"
    /\ clients < MaxClients
    /\ clients' = clients + 1
    /\ rx' = rx
    /\ Commit(c, e, AfterEvent(c))

ClientEvent(kind, arg) == Handled(kind, arg, "client")

\* Daemon::run connecting whatever auto-connect says
StartAlways ==
    /\ loop = "init"
    /\ Commit(set_target_state(Ctx, Secured), Handled("run", None, "none"), "running")
    /\ UNCHANGED <<rx, clients>>

\* Daemon::run up to its loop
Start ==
    /\ loop = "init"
    /\ LET c == IF settings.auto_connect THEN set_target_state(Ctx, Secured) ELSE Ctx
       IN Commit(c, Handled("run", None, "none"), "running")
    /\ UNCHANGED <<rx, clients>>

\* The event at the head of the queue is received and handled
HandleQueued ==
    /\ loop = "running"
    /\ rx # <<>>
    /\ rx' = Tail(rx)
    /\ clients' = clients
    /\ LET head == rx[1]
           c == IF head.kind = "TunnelStateTransition"
                THEN handle_tunnel_state_transition(Ctx, head.arg)
                ELSE on_set_target_state(Ctx, head.arg)
       IN Commit(c, Handled(head.kind, head.arg, head.src), AfterEvent(c))

SetTargetState ==
    \E s \in TargetState :
        External(on_set_target_state(Ctx, s), ClientEvent("SetTargetState", s))

GetState == External(on_get_state(Ctx), ClientEvent("GetState", None))

GetCurrentLocation ==
    External(on_get_current_location(Ctx), ClientEvent("GetCurrentLocation", None))

GetSettings == External(on_get_settings(Ctx), ClientEvent("GetSettings", None))

Query ==
    \E kind \in {"GetAccountData", "GetRelayLocations", "GetVersionInfo",
                 "GetCurrentVersion"} :
        External(on_query(Ctx, kind), ClientEvent(kind, None))

SetAccount ==
    \E token \in Option(Tokens), save_ok \in BOOLEAN :
        External(on_set_account(Ctx, token, save_ok), ClientEvent("SetAccount", token))

UpdateRelaySettings ==
    \E update \in RelaySettingsSet, save_ok \in BOOLEAN :
        External(on_update_relay_settings(Ctx, update, save_ok),
                 ClientEvent("UpdateRelaySettings", update))

SetAllowLan ==
    \E allow_lan \in BOOLEAN, save_ok \in BOOLEAN :
        External(on_set_allow_lan(Ctx, allow_lan, save_ok),
                 ClientEvent("SetAllowLan", allow_lan))

SetAutoConnect ==
    \E auto_connect \in BOOLEAN, save_ok \in BOOLEAN :
        External(on_set_auto_connect(Ctx, auto_connect, save_ok),
                 ClientEvent("SetAutoConnect", auto_connect))

SetOpenVpnMssfix ==
    \E mssfix_arg \in Option(MssfixValues), save_ok \in BOOLEAN :
        External(on_set_openvpn_mssfix(Ctx, mssfix_arg, save_ok),
                 ClientEvent("SetOpenVpnMssfix", mssfix_arg))

SetEnableIpv6 ==
    \E enable_ipv6 \in BOOLEAN, save_ok \in BOOLEAN :
        External(on_set_enable_ipv6(Ctx, enable_ipv6, save_ok),
                 ClientEvent("SetEnableIpv6", enable_ipv6))

\* ManagementCommand::Shutdown and DaemonEvent::TriggerShutdown
Shutdown ==
    \E kind \in {"Shutdown", "TriggerShutdown"} :
        External(handle_trigger_shutdown_event(Ctx), ClientEvent(kind, None))

\* ManagementInterfaceExited handled as a shutdown request: the tunnel is taken
\* down and the loop goes on
ManagementInterfaceExitedCleanup ==
    External(handle_trigger_shutdown_event(Ctx),
             ClientEvent("ManagementInterfaceExited", None))

\* DaemonEvent::ManagementInterfaceExited: handle_event returns the error
ManagementInterfaceExited ==
    /\ loop = "running"
    /\ clients < MaxClients
    /\ clients' = clients + 1
    /\ rx' = rx
    /\ Commit(Ctx, ClientEvent("ManagementInterfaceExited", None), "err")

\* A reconnect timer expires and posts its command
TimerFires ==
    /\ timers > 0
    /\ timers' = timers - 1
    /\ IF loop \in {"ok", "err"}
       THEN rx' = rx
       ELSE /\ Len(rx) < MaxRx
            /\ rx' = Append(rx, [kind |-> "SetTargetState", arg |-> Secured,
                                 src |-> "timer"])
    /\ NotHandling
    /\ UNCHANGED <<target_state, tunnel_state, state, settings, disk, current_relay,
                   loop, cmdq, commanded, ts, alive, dis, clients>>

----------------------------------------------------------------------------
(* Steps of the tunnel state machine                                       *)

\* The command channel is closed once the Daemon is dropped
Closed == loop \in {"ok", "err"}

\* A state is entered and reported to the supervisor
Entered(s) ==
    /\ ts' = s
    /\ IF Closed
       THEN rx' = rx
       ELSE /\ Len(rx) < MaxRx
            /\ rx' = Append(rx, [kind |-> "TunnelStateTransition", arg |-> Report(s),
                                 src |-> "tunnel"])

\* A state is entered from a state other than Disconnecting
Enter(s) ==
    /\ Entered(s)
    /\ dis' = IF s.name = "Disconnecting"
              THEN [NoDis EXCEPT !.entry = s.after_disconnect]
              ELSE NoDis

\* ConnectingState::enter starts the tunnel process
EnterConnecting(p) == Enter(ConnectingState(p)) /\ alive' = TRUE

\* A command is consumed without a change of state
Stay(s) == ts' = s /\ rx' = rx /\ alive' = alive /\ dis' = NoDis

\* The state machine takes the next command off the channel
Consume ==
    /\ cmdq # <<>>
    /\ cmdq' = Tail(cmdq)
    /\ UNCHANGED daemon_vars
    /\ NotHandling

\* The Disconnected state consumes a command
DisconnectedCommand ==
    /\ ts.name = "Disconnected"
    /\ Consume
    /\ LET command == cmdq[1]
       IN IF command.cmd = "Connect" THEN EnterConnecting(command.parameters)
          ELSE IF command.cmd = "Block"
          THEN Enter(BlockedState(command.reason, command.allow_lan))
               /\ alive' = alive
          ELSE Stay(ts)

\* The Connecting or Connected state consumes a command
TunnelCommand ==
    /\ ts.name \in {"Connecting", "Connected"}
    /\ Consume
    /\ LET command == cmdq[1]
       IN IF command.cmd = "Connect"
          THEN Enter(DisconnectingState(AfterReconnect(command.parameters)))
               /\ alive' = alive
          ELSE IF command.cmd = "Disconnect"
          THEN Enter(DisconnectingState(AfterNothing)) /\ alive' = alive
          ELSE IF command.cmd = "Block"
          THEN Enter(DisconnectingState(AfterBlock(command.reason, command.allow_lan)))
               /\ alive' = alive
          ELSE Stay([ts EXCEPT !.parameters.allow_lan = command.allow_lan])

\* The Blocked state consumes a command
BlockedCommand ==
    /\ ts.name = "Blocked"
    /\ Consume
    /\ LET command == cmdq[1]
       IN IF command.cmd = "Connect" THEN EnterConnecting(command.parameters)
          ELSE IF command.cmd = "Disconnect"
          THEN Enter(DisconnectedState) /\ alive' = alive
          ELSE IF command.cmd = "Block"
          THEN Enter(BlockedState(command.reason, command.allow_lan))
               /\ alive' = alive
          ELSE Stay([ts EXCEPT !.allow_lan = command.allow_lan])

\* DisconnectingState::handle_commands with a command ready
DisconnectingCommand ==
    /\ ts.name = "Disconnecting"
    /\ Consume
    /\ LET command == cmdq[1]
       IN /\ ts' = DisconnectingState(handle_commands(ts.after_disconnect, command))
          /\ dis' = IF command.cmd = "AllowLan"
                    THEN [dis EXCEPT !.lan = Some(command.allow_lan)]
                    ELSE [dis EXCEPT !.last = Some(command), !.lan = None]
    /\ UNCHANGED <<rx, alive>>

\* The closed command channel yields an error to the Disconnecting state
CommandsClosed ==
    /\ Closed
    /\ cmdq = <<>>
    /\ ts.name = "Disconnecting"
    /\ ts' = DisconnectingState(handle_commands(ts.after_disconnect, ChannelError))
    /\ dis' = [dis EXCEPT !.closed = TRUE]
    /\ UNCHANGED daemon_vars
    /\ NotHandling
    /\ UNCHANGED <<rx, cmdq, alive>>

\* The tunnel process exits, closed by the Disconnecting state or by itself
TunnelExit ==
    /\ alive
    /\ alive' = FALSE
    /\ UNCHANGED daemon_vars
    /\ NotHandling
    /\ UNCHANGED <<rx, cmdq, ts, dis>>

\* handle_exit_event that does not wait for the exit notification
ExitEventUnconfirmed ==
    /\ ts.name = "Disconnecting"
    /\ cmdq = <<>>
    /\ Entered(after_disconnect(ts.after_disconnect))
    /\ alive' = (alive \/ after_disconnect(ts.after_disconnect).name = "Connecting")
    /\ dis' = [dis EXCEPT !.exited = TRUE]
    /\ UNCHANGED daemon_vars
    /\ NotHandling
    /\ cmdq' = cmdq

\* DisconnectingState::handle_exit_event, polled when no command is ready
ExitEvent ==
    /\ ts.name = "Disconnecting"
    /\ cmdq = <<>>
    /\ ~alive
    /\ Entered(after_disconnect(ts.after_disconnect))
    /\ alive' = (after_disconnect(ts.after_disconnect).name = "Connecting")
    /\ dis' = [dis EXCEPT !.exited = TRUE]
    /\ UNCHANGED daemon_vars
    /\ NotHandling
    /\ cmdq' = cmdq

\* The tunnel comes up
TunnelUp ==
    /\ ts.name = "Connecting"
    /\ alive
    /\ Enter(ConnectedState(ts.parameters))
    /\ UNCHANGED daemon_vars
    /\ NotHandling
    /\ UNCHANGED <<cmdq, alive>>

\* The server rejects the credentials of a running tunnel
TunnelAuthFailed ==
    /\ ts.name \in {"Connecting", "Connected"}
    /\ alive
    /\ \E msg \in AuthMessages :
          Enter(DisconnectingState(AfterBlock(AuthFailed(msg), ts.parameters.allow_lan)))
    /\ UNCHANGED daemon_vars
    /\ NotHandling
    /\ UNCHANGED <<cmdq, alive>>

\* The tunnel process of the Connecting state is gone
ConnectingExit ==
    /\ ts.name = "Connecting"
    /\ ~alive
    /\ \/ Enter(BlockedState(StartTunnelError, ts.parameters.allow_lan))
       \/ Enter(DisconnectedState)
    /\ UNCHANGED daemon_vars
    /\ NotHandling
    /\ UNCHANGED <<cmdq, alive>>

\* The tunnel process of the Connected state is gone
ConnectedExit ==
    /\ ts.name = "Connected"
    /\ ~alive
    /\ \/ Enter(DisconnectingState(AfterNothing))
       \/ Enter(DisconnectingState(
                   AfterBlock(StartTunnelError, ts.parameters.allow_lan)))
    /\ UNCHANGED daemon_vars
    /\ NotHandling
    /\ UNCHANGED <<cmdq, alive>>

----------------------------------------------------------------------------

Next ==
    \/ Start
    \/ HandleQueued
    \/ SetTargetState
    \/ GetState
    \/ GetCurrentLocation
    \/ GetSettings
    \/ Query
    \/ SetAccount
    \/ UpdateRelaySettings
    \/ SetAllowLan
    \/ SetAutoConnect
    \/ SetOpenVpnMssfix
    \/ SetEnableIpv6
    \/ Shutdown
    \/ ManagementInterfaceExited
    \/ TimerFires
    \/ DisconnectedCommand
    \/ TunnelCommand
    \/ BlockedCommand
    \/ DisconnectingCommand
    \/ CommandsClosed
    \/ TunnelExit
    \/ ExitEvent
    \/ TunnelUp
    \/ TunnelAuthFailed
    \/ ConnectingExit
    \/ ConnectedExit

Spec == Init /\ [][Next]_vars

----------------------------------------------------------------------------
(* The tunnel state machine under any supervisor: every command may be     *)
(* sent at any time, reports are taken off the queue, and the command      *)
(* channel may be closed.                                                  *)

ParameterSet ==
    [endpoint : {"se-relay", "host"},
     options : {[enable_ipv6 |-> FALSE, mssfix |-> None]},
     username : {"t1"},
     allow_lan : BOOLEAN]

TunnelCommands ==
    {Connect(p) : p \in ParameterSet}
        \cup {Disconnect}
        \cup {Block(r, a) : r \in {NoMatchingRelay}, a \in BOOLEAN}
        \cup {AllowLan(a) : a \in BOOLEAN}

InitTunnel == Init /\ settings = DefaultSettings(None, NormalSe, FALSE)

AnySend ==
    /\ ~Closed
    /\ Len(cmdq) < MaxCmdQ
    /\ \E command \in TunnelCommands :
          /\ cmdq' = Append(cmdq, command)
          /\ commanded' = LastCommanded(<<command>>, commanded)
    /\ NotHandling
    /\ UNCHANGED <<target_state, tunnel_state, state, settings, disk, current_relay,
                   loop, rx, timers, ts, alive, dis, clients>>

AnyReceive ==
    /\ ~Closed
    /\ rx # <<>>
    /\ rx' = Tail(rx)
    /\ tunnel_state' = rx[1].arg
    /\ NotHandling
    /\ UNCHANGED <<target_state, state, settings, disk, current_relay, loop, timers,
                   cmdq, commanded, ts, alive, dis, clients>>

AnyDrop ==
    /\ ~Closed
    /\ loop' = "err"
    /\ NotHandling
    /\ UNCHANGED <<target_state, tunnel_state, state, settings, disk, current_relay,
                   rx, timers, cmdq, commanded, ts, alive, dis, clients>>

NextTunnel ==
    \/ AnySend
    \/ AnyReceive
    \/ AnyDrop
    \/ DisconnectedCommand
    \/ TunnelCommand
    \/ BlockedCommand
    \/ DisconnectingCommand
    \/ CommandsClosed
    \/ TunnelExit
    \/ ExitEvent
    \/ TunnelUp
    \/ TunnelAuthFailed
    \/ ConnectingExit
    \/ ConnectedExit

SpecTunnel == InitTunnel /\ [][NextTunnel]_vars

----------------------------------------------------------------------------
(* The wire format of TunnelStateTransition (talpid-types, tunnel.rs): the *)
(* serde attributes rename_all = "snake_case" and tag/content.  A value of *)
(* an enum is its variant, named by the words of its identifier, and the   *)
(* payload of a newtype variant; JSON is strings, null and objects, an     *)
(* object being its members in the order written.                          *)

MaxMessages == 2     \* distinct messages an AuthFailed may carry

\* A unit variant and a newtype variant of an enum
UnitVariant(words) == [variant |-> words, payload |-> None]
NewtypeVariant(words, x) == [variant |-> words, payload |-> Some(x)]

\* ActionAfterDisconnect
ActionAfterDisconnectValues ==
    {UnitVariant(w) : w \in {<<"nothing">>, <<"block">>, <<"reconnect">>}}

\* The messages of the model; the first reads like JSON's null
WireMessages == <<"null", "expired", "", "auth_failed">>

\* BlockReason
BlockReasonValues ==
    {NewtypeVariant(<<"auth", "failed">>, None)}
        \cup {NewtypeVariant(<<"auth", "failed">>, Some(WireMessages[i])) :
                 i \in {j \in 1..MaxMessages : j <= Len(WireMessages)}}
        \cup {UnitVariant(w) : w \in {<<"ipv6", "unavailable">>,
                                       <<"set", "security", "policy", "error">>,
                                       <<"start", "tunnel", "error">>,
                                       <<"no", "matching", "relay">>}}

\* TunnelStateTransition
TransitionValues ==
    {UnitVariant(w) : w \in {<<"disconnected">>, <<"connecting">>, <<"connected">>}}
        \cup {NewtypeVariant(<<"disconnecting">>, a) : a \in ActionAfterDisconnectValues}
        \cup {NewtypeVariant(<<"blocked">>, r) : r \in BlockReasonValues}

\* JSON
JString(str) == [json |-> "string", str |-> str]
JNull == [json |-> "null"]
JObject(members) == [json |-> "object", members |-> members]

\* The member of an object with the given key, if any
Member(object, key) ==
    LET found == SelectSeq(object.members, LAMBDA m : m[1] = key)
    IN IF found = <<>> THEN None ELSE Some(found[1][2])

\* rename_all that puts the words together with nothing in between
RECURSIVE joined(_)
joined(words) ==
    IF words = <<>> THEN "" ELSE words[1] \o joined(Tail(words))

\* rename_all = "snake_case": the words of the identifier, in lower case,
\* joined by underscores
RECURSIVE snake_case(_)
snake_case(words) ==
    IF Len(words) = 1 THEN words[1]
    ELSE words[1] \o "_" \o snake_case(Tail(words))

\* Serialize for an enum of unit variants (externally tagged): the name
serialize_unit_enum(v) == JString(snake_case(v.variant))

\* Serialize for Option<String>
serialize_option_string(o) == IF o = None THEN JNull ELSE JString(o[1])

\* Serialize for an adjacently tagged enum: the tag, then the content of a
\* newtype variant, body being the payload as serialized
serialize_adjacent(v, tag, content, body) ==
    JObject(<< <<tag, JString(snake_case(v.variant))>> >>
            \o IF v.payload = None THEN <<>> ELSE << <<content, body>> >>)

\* Serialize for BlockReason and for TunnelStateTransition
serialize_block_reason(r) ==
    serialize_adjacent(r, "reason", "details", serialize_option_string(r.payload[1]))

serialize(t) ==
    serialize_adjacent(t, "state", "details",
                       IF t.variant = <<"disconnecting">>
                       THEN serialize_unit_enum(t.payload[1])
                       ELSE serialize_block_reason(t.payload[1]))

\* Deserialize for an enum of unit variants, for Option<String>; an Option
\* holds the value read, None stands for an error
deserialize_unit_enum(j, values) ==
    IF j.json = "string" /\ \E v \in values : snake_case(v.variant) = j.str
    THEN Some(CHOOSE v \in values : snake_case(v.variant) = j.str)
    ELSE None

deserialize_option_string(j) ==
    IF j.json = "null" THEN Some(None)
    ELSE IF j.json = "string" THEN Some(Some(j.str))
    ELSE None

\* Deserialize for an adjacently tagged enum: the variant named under tag,
\* one of those given, and what is under content, still to be read
deserialize_adjacent(j, tag, content, variants) ==
    IF j.json # "object" \/ Member(j, tag) = None THEN None
    ELSE LET name == Member(j, tag)[1]
         IN IF name.json = "string" /\ \E w \in variants : snake_case(w) = name.str
            THEN Some([variant |-> CHOOSE w \in variants : snake_case(w) = name.str,
                       body |-> Member(j, content)])
            ELSE None

\* A newtype variant whose payload was read, or the error of reading it
newtype_variant(words, body, payload) ==
    IF body = None \/ payload = None THEN None
    ELSE Some(NewtypeVariant(words, payload[1]))

deserialize_block_reason(j) ==
    LET read == deserialize_adjacent(j, "reason", "details",
                                     {<<"auth", "failed">>,
                                      <<"ipv6", "unavailable">>,
                                      <<"set", "security", "policy", "error">>,
                                      <<"start", "tunnel", "error">>,
                                      <<"no", "matching", "relay">>})
    IN IF read = None THEN None
       ELSE IF read[1].variant = <<"auth", "failed">>
       THEN newtype_variant(read[1].variant, read[1].body,
                            deserialize_option_string(read[1].body[1]))
       ELSE Some(UnitVariant(read[1].variant))

deserialize(j) ==
    LET read == deserialize_adjacent(j, "state", "details",
                                     {<<"disconnected">>, <<"connecting">>,
                                      <<"connected">>, <<"disconnecting">>,
                                      <<"blocked">>})
    IN IF read = None THEN None
       ELSE IF read[1].variant = <<"disconnecting">>
       THEN newtype_variant(read[1].variant, read[1].body,
                            deserialize_unit_enum(read[1].body[1],
                                                  ActionAfterDisconnectValues))
       ELSE IF read[1].variant = <<"blocked">>
       THEN newtype_variant(read[1].variant, read[1].body,
                            deserialize_block_reason(read[1].body[1]))
       ELSE Some(UnitVariant(read[1].variant))

\* Everything the daemon and the tunnel state machine hold
daemon_and_tunnel ==
    <<target_state, tunnel_state, state, settings, disk, current_relay, loop,
      rx, timers, cmdq, commanded, ts, alive, dis, event, effects, clients>>

\* Two transitions are about to be written to the management interface
InitWire ==
    /\ DaemonInit(DefaultSettings(None, NormalSe, FALSE))
    /\ wire \in [value : TransitionValues, other : TransitionValues,
                  sent : {None}, received : {None}]
    /\ builder = Unused
    /\ dns = Unused
    /\ windns = Unused
    /\ service = Unused

\* Both are serialized
Serialize ==
    /\ wire.sent = None
    /\ wire' = [wire EXCEPT !.sent = Some([value |-> serialize(wire.value),
                                            other |-> serialize(wire.other)])]
    /\ UNCHANGED <<daemon_and_tunnel, builder, dns, windns, service>>

\* The first is read back by a client
Deserialize ==
    /\ wire.sent # None
    /\ wire.received = None
    /\ wire' = [wire EXCEPT !.received = Some(deserialize(wire.sent[1].value))]
    /\ UNCHANGED <<daemon_and_tunnel, builder, dns, windns, service>>

NextWire ==
    \/ Serialize
    \/ Deserialize

SpecWire == InitWire /\ [][NextWire]_vars

----------------------------------------------------------------------------
(* OpenVpnBuilder (process.rs): the arguments of the OpenVPN subprocess.   *)

MaxRemotes == 2      \* remotes given to one call of remotes()
MaxCalls == 4        \* calls made on one builder

ConfigPaths == {"/etc/openvpn/a.conf", "b.conf"}

\* RemoteAddr values
RemoteAddrs ==
    {[address |-> "example.com", port |-> 3333],
     [address |-> "fe80::1", port |-> 1337]}

\* The lists of remotes a caller may give
RemoteLists == UNION {[1..n -> RemoteAddrs] : n \in 0..MaxRemotes}

\* OpenVpnBuilder::new, with the ghost fields call (the last call made), arg
\* (what it was given), arguments (what get_arguments returned last) and
\* calls (how many were made)
OpenVpnBuilder_new(openvpn_bin) ==
    [openvpn_bin |-> openvpn_bin, config |-> None, remotes |-> <<>>,
     call |-> "new", arg |-> <<>>, arguments |-> <<>>, calls |-> 0]

\* The loop of get_arguments over the remotes
RECURSIVE remote_arguments(_)
remote_arguments(remotes) ==
    IF remotes = <<>> THEN <<>>
    ELSE <<"--remote", remotes[1].address, ToString(remotes[1].port)>>
             \o remote_arguments(Tail(remotes))

\* get_arguments with the remotes ahead of the configuration file
get_arguments_remotes_first(b) ==
    remote_arguments(b.remotes)
        \o IF b.config # None THEN <<"--config", b.config[1]>> ELSE <<>>

\* OpenVpnBuilder::get_arguments
get_arguments(b) ==
    (IF b.config # None THEN <<"--config", b.config[1]>> ELSE <<>>)
        \o remote_arguments(b.remotes)

InitBuilder ==
    /\ DaemonInit(DefaultSettings(None, NormalSe, FALSE))
    /\ wire = Unused
    /\ \E openvpn_bin \in {"", "openvpn"} : builder = OpenVpnBuilder_new(openvpn_bin)
    /\ dns = Unused
    /\ windns = Unused
    /\ service = Unused

\* One more call on the builder, leaving everything else alone
BuilderCall(b, call, arg) ==
    /\ builder.calls < MaxCalls
    /\ builder' = [b EXCEPT !.call = call, !.arg = arg, !.calls = builder.calls + 1]
    /\ UNCHANGED <<daemon_and_tunnel, wire, dns, windns, service>>

\* OpenVpnBuilder::config
BuilderConfig ==
    \E path \in ConfigPaths :
        BuilderCall([builder EXCEPT !.config = Some(path)], "config", path)

\* OpenVpnBuilder::remotes, the conversion to_remote_addrs succeeding
BuilderRemotes ==
    \E remotes \in RemoteLists :
        BuilderCall([builder EXCEPT !.remotes = remotes], "remotes", remotes)

\* OpenVpnBuilder::remotes, the conversion failing: the ? returns early
BuilderRemotesFail ==
    \E remotes \in RemoteLists : BuilderCall(builder, "remotes_err", remotes)

\* OpenVpnBuilder::get_arguments is called
BuilderGetArguments ==
    BuilderCall([builder EXCEPT !.arguments = get_arguments(builder)],
                "get_arguments", <<>>)

NextBuilder ==
    \/ BuilderConfig
    \/ BuilderRemotes
    \/ BuilderRemotesFail
    \/ BuilderGetArguments

SpecBuilder == InitBuilder /\ [][NextBuilder]_vars

----------------------------------------------------------------------------
(* The DNS settings manager on Linux (security/linux/dns/mod.rs).          *)

\* Values of TALPID_DNS_MODULE: an OsString, which need not be UTF-8
DnsModuleValues ==
    {[utf8 |-> TRUE, text |-> t] :
        t \in {"static-file", "resolvconf", "Resolvconf", "systemd-resolved", ""}}
      \cup {[utf8 |-> FALSE, text |-> "resolvconf"]}

\* OsStr::to_str
to_str(value) == IF value.utf8 THEN Some(value.text) ELSE None

\* Result
Ok(x) == [ok |-> TRUE, value |-> x]
Err(x) == [ok |-> FALSE, value |-> x]

\* with_detected_dns_manager trying the static file first
with_detected_dns_manager_static_first(resolvconf_ok, static_ok) ==
    IF static_ok THEN Ok("StaticResolvConf")
    ELSE IF resolvconf_ok THEN Ok("Resolvconf")
    ELSE Err("NoDnsSettingsManager")

\* DnsSettings::with_detected_dns_manager, given whether Resolvconf::new and
\* StaticResolvConf::new succeed
with_detected_dns_manager(resolvconf_ok, static_ok) ==
    IF resolvconf_ok THEN Ok("Resolvconf")
    ELSE IF static_ok THEN Ok("StaticResolvConf")
    ELSE Err("NoDnsSettingsManager")

\* DnsSettings::new, given env::var_os("TALPID_DNS_MODULE")
DnsSettings_new(dns_module, resolvconf_ok, static_ok) ==
    LET name == IF dns_module = None THEN None ELSE to_str(dns_module[1])
    IN IF name = Some("static-file")
       THEN IF static_ok THEN Ok("StaticResolvConf") ELSE Err("StaticResolvConf")
       ELSE IF name = Some("resolvconf")
       THEN IF resolvconf_ok THEN Ok("Resolvconf") ELSE Err("Resolvconf")
       ELSE with_detected_dns_manager(resolvconf_ok, static_ok)

\* The environment and the system DnsSettings::new will find
InitDns ==
    /\ DaemonInit(DefaultSettings(None, NormalSe, FALSE))
    /\ wire = Unused
    /\ builder = Unused
    /\ dns \in [dns_module : Option(DnsModuleValues), resolvconf_ok : BOOLEAN,
                 static_ok : BOOLEAN, made : {None}, call : {"none"}]
    /\ windns = Unused
    /\ service = Unused

\* DnsSettings::new
DnsNew ==
    /\ dns.made = None
    /\ dns' = [dns EXCEPT !.made = Some(DnsSettings_new(dns.dns_module, dns.resolvconf_ok,
                                                        dns.static_ok)),
                          !.call = "new"]
    /\ UNCHANGED <<daemon_and_tunnel, wire, builder, windns, service>>

\* DnsSettings::set_dns and DnsSettings::reset: the backend made is called,
\* and its error, if any, is the result
DnsCall ==
    /\ dns.made # None
    /\ dns.made[1].ok
    /\ \E op \in {"set_dns", "reset"}, ok \in BOOLEAN :
          dns' = [dns EXCEPT !.call = dns.made[1].value \o "::" \o op
                                         \o IF ok THEN " ok" ELSE " failed"]
    /\ UNCHANGED <<daemon_and_tunnel, wire, builder, windns, service>>

NextDns ==
    \/ DnsNew
    \/ DnsCall

SpecDns == InitDns /\ [][NextDns]_vars

----------------------------------------------------------------------------
(* The DNS monitor on Windows (security/windows/dns.rs).  The record w is  *)
(* the machine: the backup file, the DNS settings of the system, whether a *)
(* WinDns is constructed, and the result of the last call.                 *)

\* DNS settings a system may have of its own, and those of the tunnel
SystemDns == {"dhcp", "manual"}
TunnelDns == "tunnel"

\* SystemStateWriter::remove_backup and write_backup succeeding
remove_backup(w) == [w EXCEPT !.backup = None]
write_backup(w, data) == [w EXCEPT !.backup = Some(data)]

\* WinDns::restore_dns_settings: WinDns_Recover succeeding
restore_dns_settings(w, data) == [w EXCEPT !.system = data]

\* restore_system_backup that removes the backup before restoring from it
restore_system_backup_remove_first(w, read_ok, recover_ok, remove_ok) ==
    IF ~read_ok THEN [w EXCEPT !.result = Err("read_backup")]
    ELSE IF w.backup = None THEN [w EXCEPT !.result = Ok("unit")]
    ELSE IF ~remove_ok THEN [w EXCEPT !.result = Err("remove_backup")]
    ELSE IF ~recover_ok THEN [remove_backup(w) EXCEPT !.result = Err("Recovery")]
    ELSE [restore_dns_settings(remove_backup(w), w.backup[1])
             EXCEPT !.result = Ok("unit")]

\* WinDns::restore_system_backup, given whether read_backup, WinDns_Recover
\* and remove_backup succeed
restore_system_backup(w, read_ok, recover_ok, remove_ok) ==
    IF ~read_ok THEN [w EXCEPT !.result = Err("read_backup")]
    ELSE IF w.backup = None THEN [w EXCEPT !.result = Ok("unit")]
    ELSE IF ~recover_ok THEN [w EXCEPT !.result = Err("Recovery")]
    ELSE LET w1 == restore_dns_settings(w, w.backup[1])
         IN IF ~remove_ok THEN [w1 EXCEPT !.result = Err("remove_backup")]
            ELSE [remove_backup(w1) EXCEPT !.result = Ok("unit")]

\* WinDns::new, given whether WinDns_Initialize succeeds; a failure to
\* restore is logged and no more
WinDns_new(w, init_ok, read_ok, recover_ok, remove_ok) ==
    IF ~init_ok THEN [w EXCEPT !.result = Err("Initialization")]
    ELSE LET w1 == restore_system_backup(w, read_ok, recover_ok, remove_ok)
         IN [w1 EXCEPT !.constructed = TRUE, !.logged = ~w1.result.ok,
                       !.result = Ok("WinDns")]

\* WinDns::set_dns: WinDns_Set may hand the settings it is about to replace
\* to write_system_state_backup_cb, whose write may fail, and may itself fail
set_dns(w, backup_cb, write_ok, set_ok) ==
    LET w1 == IF backup_cb /\ write_ok /\ w.system # TunnelDns
              THEN write_backup(w, w.system)
              ELSE w
    IN IF set_ok THEN [w1 EXCEPT !.system = TunnelDns, !.result = Ok("unit")]
       ELSE [w1 EXCEPT !.result = Err("Setting")]

\* WinDns::reset_dns: WinDns_Reset puts back what it replaced; a failure to
\* remove the backup is logged and no more
reset_dns(w, reset_ok, remove_ok, original) ==
    IF ~reset_ok THEN [w EXCEPT !.result = Err("Resetting")]
    ELSE LET w1 == [w EXCEPT !.system = IF w.system = TunnelDns THEN original
                                        ELSE w.system,
                             !.logged = ~remove_ok, !.result = Ok("unit")]
         IN IF remove_ok THEN remove_backup(w1) ELSE w1

\* A machine before the daemon starts: a backup may be left from a run that
\* ended with the tunnel's DNS settings in place
InitWinDns ==
    /\ DaemonInit(DefaultSettings(None, NormalSe, FALSE))
    /\ wire = Unused
    /\ builder = Unused
    /\ dns = Unused
    /\ \E backup \in Option(SystemDns), system \in SystemDns \cup {TunnelDns} :
          windns = [backup |-> backup, system |-> system, constructed |-> FALSE,
                    logged |-> FALSE, result |-> Ok("none"),
                    call |-> [op |-> "none", ok |-> <<>>, pre |-> backup,
                              was |-> system]]
    /\ service = Unused

\* The machine after a call, with the call, the outcomes chosen for the
\* operations it rests on, and the backup and settings it found
WinDnsCall(w, op, ok) ==
    /\ windns' = [w EXCEPT !.call = [op |-> op, ok |-> ok, pre |-> windns.backup,
                                     was |-> windns.system]]
    /\ UNCHANGED <<daemon_and_tunnel, wire, builder, dns, service>>

WinDnsNew ==
    /\ ~windns.constructed
    /\ \E init_ok, read_ok, recover_ok, remove_ok \in BOOLEAN :
          WinDnsCall(WinDns_new([windns EXCEPT !.logged = FALSE],
                                init_ok, read_ok, recover_ok, remove_ok),
                     "new", <<init_ok, read_ok, recover_ok, remove_ok>>)

WinDnsSet ==
    /\ windns.constructed
    /\ \E backup_cb, write_ok, set_ok \in BOOLEAN :
          WinDnsCall(set_dns([windns EXCEPT !.logged = FALSE],
                             backup_cb, write_ok, set_ok),
                     "set_dns", <<backup_cb, write_ok, set_ok>>)

WinDnsReset ==
    /\ windns.constructed
    /\ \E reset_ok, remove_ok \in BOOLEAN, original \in SystemDns :
          /\ windns.backup # None => original = windns.backup[1]
          /\ WinDnsCall(reset_dns([windns EXCEPT !.logged = FALSE],
                                  reset_ok, remove_ok, original),
                        "reset_dns", <<reset_ok, remove_ok>>)

\* The process ends, WinDns dropped or not: the file and the settings stay
WinDnsExit ==
    /\ windns.constructed
    /\ WinDnsCall([windns EXCEPT !.constructed = FALSE, !.logged = FALSE,
                                 !.result = Ok("none")],
                  "exit", <<>>)

NextWinDns ==
    \/ WinDnsNew
    \/ WinDnsSet
    \/ WinDnsReset
    \/ WinDnsExit

SpecWinDns == InitWinDns /\ [][NextWinDns]_vars

----------------------------------------------------------------------------
(* The Windows service (system_service.rs).  The service thread runs       *)
(* run_service; the control handler runs on the dispatcher's thread, one   *)
(* control event at a time.  Both report through clones of                 *)
(* PersistentServiceStatus, which share checkpoint_counter.                *)

MaxControls == 3     \* control events the service control manager sends

\* ServiceState
ServiceStates ==
    {"StartPending", "StopPending", "ContinuePending", "PausePending",
     "Running", "Paused", "Stopped"}

PendingStates == {"StartPending", "StopPending", "ContinuePending", "PausePending"}

\* accepted_controls_by_state
accepted_controls_by_state(st) ==
    IF st \in {"Running", "Paused"} THEN {"Stop", "Preshutdown"} ELSE {}

\* The first half of report_status with a counter that is read and not bumped
take_checkpoint_unbumped(next_state, counter) ==
    IF next_state \in PendingStates
    THEN [checkpoint |-> counter, counter |-> counter]
    ELSE [checkpoint |-> 0, counter |-> counter]

\* The first half of report_status: fetch_add on the shared counter for a
\* pending state, 0 otherwise.  The counter is a usize and the checkpoint its
\* cast to u32; one pending report is made per Stop or Preshutdown and one at
\* the start, so the counter stays below 2 + MaxControls, far from either
\* width.
take_checkpoint(next_state, counter) ==
    IF next_state \in PendingStates
    THEN [checkpoint |-> counter, counter |-> counter + 1]
    ELSE [checkpoint |-> 0, counter |-> counter]

\* The ServiceStatus report_status builds
ServiceStatus(next_state, checkpoint) ==
    [current_state |-> next_state,
     controls_accepted |-> accepted_controls_by_state(next_state),
     checkpoint |-> checkpoint]

\* PersistentServiceStatus::new and the start of run_service: the handler is
\* registered and has no shutdown handle yet
InitService ==
    /\ DaemonInit(DefaultSettings(None, NormalSe, FALSE))
    /\ wire = Unused
    /\ builder = Unused
    /\ dns = Unused
    /\ windns = Unused
    /\ service = [checkpoint_counter |-> 1,
                  at |-> "set_pending_start", status |-> None,
                  handle_sent |-> FALSE, handling |-> None, handler_status |-> None,
                  controls |-> <<>>, delivered |-> 0,
                  reports |-> <<>>, shutdown |-> FALSE, result |-> "none"]

\* A step of the service, leaving everything else alone
ServiceStep(sv) ==
    /\ service' = sv
    /\ UNCHANGED <<daemon_and_tunnel, wire, builder, dns, windns>>

\* The state the service thread is about to report
StateToReport(at) ==
    CASE at = "set_pending_start" -> "StartPending"
      [] at = "set_running" -> "Running"
      [] at = "set_stopped" -> "Stopped"

\* What run_service does after a report
AfterReport(at) ==
    CASE at = "set_pending_start" -> "create_daemon"
      [] at = "set_running" -> "daemon_run"
      [] at = "set_stopped" -> "returned"

\* The service thread in report_status, up to the ServiceStatus
ServiceTakesCheckpoint ==
    /\ service.at \in {"set_pending_start", "set_running", "set_stopped"}
    /\ service.status = None
    /\ LET taken == take_checkpoint(StateToReport(service.at), service.checkpoint_counter)
       IN ServiceStep([service EXCEPT
              !.checkpoint_counter = taken.counter,
              !.status = Some(ServiceStatus(StateToReport(service.at),
                                            taken.checkpoint))])

\* The service thread in report_status: set_service_status
ServiceReports ==
    /\ service.status # None
    /\ ServiceStep([service EXCEPT
          !.reports = Append(service.reports, service.status[1]),
          !.status = None,
          !.at = AfterReport(service.at)])

\* create_daemon; the shutdown handle and a clone of the status go to the
\* control handler
ServiceCreatesDaemon ==
    /\ service.at = "create_daemon"
    /\ \E ok \in BOOLEAN :
          ServiceStep(IF ok
                      THEN [service EXCEPT !.handle_sent = TRUE, !.at = "set_running"]
                      ELSE [service EXCEPT !.result = "Err", !.at = "set_stopped"])

\* daemon.run returns: Ok once a shutdown was asked for, Err at any time
ServiceDaemonReturns ==
    /\ service.at = "daemon_run"
    /\ \E ok \in BOOLEAN :
          /\ ok => service.shutdown
          /\ ServiceStep([service EXCEPT !.result = IF ok THEN "Ok" ELSE "Err",
                                         !.at = "set_stopped"])

\* The service control manager sends a control event: Interrogate at any
\* time, the others when the status last reported accepts them
ControlSent ==
    /\ service.delivered < MaxControls
    /\ service.reports # <<>>
    /\ service.at # "returned"
    /\ \E control \in {"Interrogate", "Stop", "Preshutdown"} :
          /\ control # "Interrogate" =>
                control \in service.reports[Len(service.reports)].controls_accepted
          /\ ServiceStep([service EXCEPT
                !.controls = Append(service.controls, control),
                !.delivered = service.delivered + 1])

\* event_handler takes the next control event, once it has received the
\* shutdown handle; for Stop and Preshutdown it enters set_pending_stop, up
\* to the ServiceStatus
HandlerTakes ==
    /\ service.handling = None
    /\ service.controls # <<>>
    /\ service.handle_sent
    /\ LET control == service.controls[1]
           taken == take_checkpoint("StopPending", service.checkpoint_counter)
       IN ServiceStep(IF control = "Interrogate"
                      THEN [service EXCEPT !.controls = Tail(service.controls)]
                      ELSE [service EXCEPT
                              !.controls = Tail(service.controls),
                              !.handling = Some(control),
                              !.checkpoint_counter = taken.counter,
                              !.handler_status =
                                  Some(ServiceStatus("StopPending", taken.checkpoint))])

\* event_handler: set_service_status of set_pending_stop, then shutdown()
HandlerReports ==
    /\ service.handling # None
    /\ ServiceStep([service EXCEPT
          !.reports = Append(service.reports, service.handler_status[1]),
          !.handler_status = None,
          !.handling = None,
          !.shutdown = TRUE])

NextService ==
    \/ ServiceTakesCheckpoint
    \/ ServiceReports
    \/ ServiceCreatesDaemon
    \/ ServiceDaemonReturns
    \/ ControlSent
    \/ HandlerTakes
    \/ HandlerReports

SpecService == InitService /\ [][NextService]_vars

----------------------------------------------------------------------------
(* Scheduling.  The supervisor's thread handles the events queued for it,  *)
(* the state machine's thread consumes the commands and notifications it   *)
(* is given, a timer thread wakes up, and the tunnel process that the      *)
(* Disconnecting state has closed exits.  Clients and a running tunnel are *)
(* under no obligation to do anything.                                     *)

\* The tunnel process closed on entry of the Disconnecting state exits
ClosedTunnelExit == ts.name = "Disconnecting" /\ TunnelExit

\* Nothing is queued and none of the steps that scheduling guarantees can be
\* taken: the system stays as it is until a client or the running tunnel acts
Quiescent ==
    /\ rx = <<>>
    /\ cmdq = <<>>
    /\ ~ENABLED Start
    /\ ~ENABLED HandleQueued
    /\ ~ENABLED TimerFires
    /\ ~ENABLED DisconnectedCommand
    /\ ~ENABLED TunnelCommand
    /\ ~ENABLED BlockedCommand
    /\ ~ENABLED DisconnectingCommand
    /\ ~ENABLED ClosedTunnelExit
    /\ ~ENABLED ExitEvent

----------------------------------------------------------------------------
(* Properties of the supervisor                                            *)

\* The tunnel commands the last handled event sent
SentNow == Sent(effects)

\* The replies the last handled event delivered
RepliesNow ==
    LET replies == SelectSeq(effects, LAMBDA x : x.e = "reply")
    IN [i \in 1..Len(replies) |-> replies[i].v]

\* The last handled event sent no command that starts a tunnel or blocks
NoConnectOrBlock == \A i \in 1..Len(SentNow) : SentNow[i].cmd \notin {"Connect", "Block"}

\* The last handled event wrote the settings file
Persisted == event.kind # "none" /\ disk # event.pre.disk

\* C1, as claimed: while the target state is Secured the tunnel state the
\* supervisor has observed is never Disconnected.
C1_NeverObservedDisconnected == target_state = Secured => tunnel_state # Disconnected

\* C1, amended: the observed tunnel state can be Disconnected while the target
\* is Secured; whenever it is, and the daemon is Running, the last command the
\* supervisor sent other than AllowLan is Connect or Block.
C1_DisconnectedOnlyWhileCommandedUp ==
    (target_state = Secured /\ state = Running /\ tunnel_state = Disconnected)
        => commanded \in {"Connect", "Block"}

\* C1: a Disconnected report has just been handled with the target Secured
C1_Witness ==
    /\ event.kind = "TunnelStateTransition"
    /\ event.arg = Disconnected
    /\ target_state = Secured
    /\ state = Running

\* C2: after every handled event, if the target state is Secured and the
\* execution state is Running, the last command sent other than AllowLan is
\* Connect or Block, never Disconnect.
C2_CommandedSecured ==
    (target_state = Secured /\ state = Running) => commanded \in {"Connect", "Block"}

\* C2: the target went back to Secured after a Disconnect had been commanded
C2_Witness ==
    /\ event.kind = "SetTargetState"
    /\ event.pre.target_state = Unsecured
    /\ target_state = Secured
    /\ state = Running
    /\ tunnel_state # Disconnected

\* C4: handling SetAllowLan(x) leaves the target state alone and sends exactly
\* AllowLan(x) if the persisted allow-LAN value changed, and nothing if not.
C4_SetAllowLan ==
    event.kind = "SetAllowLan" =>
        /\ target_state = event.pre.target_state
        /\ SentNow = IF disk.allow_lan # event.pre.disk.allow_lan
                     THEN <<AllowLan(event.arg)>>
                     ELSE <<>>

\* C4: allow-LAN was switched on while the tunnel was observed Connected
C4_Witness ==
    /\ event.kind = "SetAllowLan"
    /\ tunnel_state = Connected
    /\ target_state = Secured
    /\ SentNow = <<AllowLan(TRUE)>>

\* C5, as claimed: SetAccount(None) handled while the target is Secured sets
\* the target to Unsecured and sends exactly one Disconnect.
C5_ClearAccountDisconnects ==
    (event.kind = "SetAccount" /\ event.arg = None
        /\ event.pre.target_state = Secured)
        => (target_state = Unsecured /\ SentNow = <<Disconnect>>)

\* C5, amended: SetAccount(None) handled while the target is Secured and a
\* token is set sets the target to Unsecured and sends exactly one Disconnect
\* if the settings were written; if the write failed the target stays Secured
\* and no tunnel command is sent.
C5_ClearAccountWhenPersisted ==
    (event.kind = "SetAccount" /\ event.arg = None
        /\ event.pre.target_state = Secured
        /\ event.pre.settings.account_token # None)
        => IF Persisted
           THEN target_state = Unsecured /\ SentNow = <<Disconnect>>
           ELSE target_state = Secured /\ SentNow = <<>>

\* C5: the account was cleared while Secured and the target changed
C5_Witness ==
    /\ event.kind = "SetAccount"
    /\ event.arg = None
    /\ event.pre.target_state = Secured
    /\ target_state = Unsecured
    /\ SentNow = <<Disconnect>>

\* C6: SetTargetState handled while the execution state is not Running replies
\* Ok, does nothing else and leaves the target state as it was.
C6_IgnoredDuringShutdown ==
    (event.kind = "SetTargetState" /\ event.pre.state # Running)
        => /\ effects = <<[e |-> "reply", v |-> "Ok"]>>
           /\ target_state = event.pre.target_state

\* C6: a request for the other target state was handled while Exiting
C6_Witness ==
    /\ event.kind = "SetTargetState"
    /\ event.pre.state = Exiting
    /\ event.arg # event.pre.target_state

\* C7: SetTargetState(Secured) handled while Running with no account token
\* replies Err, leaves the target Unsecured and sends no Connect or Block.
C7_SecuredWithoutToken ==
    (event.kind = "SetTargetState" /\ event.arg = Secured
        /\ event.pre.state = Running
        /\ event.pre.settings.account_token = None)
        => /\ RepliesNow = <<"Err">>
           /\ target_state = Unsecured
           /\ NoConnectOrBlock

\* C7: such a request was handled
C7_Witness ==
    /\ event.kind = "SetTargetState"
    /\ event.arg = Secured
    /\ event.pre.state = Running
    /\ event.pre.settings.account_token = None
    /\ RepliesNow = <<"Err">>

\* The last handled event is one whose handler calls reconnect_tunnel
Reconnects ==
    /\ \/ event.kind \in {"UpdateRelaySettings", "SetEnableIpv6"}
       \/ event.kind = "SetAccount" /\ event.arg # None
    /\ Persisted

\* The parameters a connection gets under the settings as they are now
FreshParameters ==
    [endpoint |-> EndpointFor(settings.relay_settings)[1],
     options |-> [enable_ipv6 |-> settings.enable_ipv6,
                  mssfix |-> settings.openvpn_mssfix],
     username |-> settings.account_token[1],
     allow_lan |-> settings.allow_lan]

\* C8, as claimed: a reconnect sends Connect with fresh parameters whenever the
\* target is Secured and a token is present, and nothing otherwise.
C8_ReconnectConnects ==
    Reconnects =>
        IF target_state = Secured /\ settings.account_token # None
        THEN /\ Len(SentNow) = 1
             /\ SentNow[1].cmd = "Connect"
             /\ SentNow[1] = Connect(FreshParameters)
        ELSE SentNow = <<>>

\* C8, amended: a reconnect with the target Secured and a token present sends
\* Connect with fresh parameters, or Block(NoMatchingRelay, allow_lan) when the
\* relay settings yield no endpoint; otherwise it sends nothing.
C8_ReconnectConnectsOrBlocks ==
    Reconnects =>
        IF target_state = Secured /\ settings.account_token # None
        THEN SentNow = IF EndpointFor(settings.relay_settings) # None
                       THEN <<Connect(FreshParameters)>>
                       ELSE <<Block(NoMatchingRelay, settings.allow_lan)>>
        ELSE SentNow = <<>>

\* C8: a reconnect found no relay and blocked
C8_Witness ==
    /\ Reconnects
    /\ target_state = Secured
    /\ SentNow = <<Block(NoMatchingRelay, settings.allow_lan)>>

\* C9: when the main loop starts, the target is Secured if and only if
\* auto-connect is set and an account token is present; otherwise it is
\* Unsecured and no Connect or Block has been sent.
C9_StartupTarget ==
    event.kind = "run" =>
        /\ target_state = Secured
              <=> (settings.auto_connect /\ settings.account_token # None)
        /\ target_state = Unsecured => (NoConnectOrBlock /\ commanded # "Connect")

\* C9: auto-connect was set and no token was present
C9_Witness ==
    /\ event.kind = "run"
    /\ settings.auto_connect
    /\ settings.account_token = None
    /\ target_state = Unsecured

\* C10: a shutdown request handled while Running sets the execution state to
\* Finished if the observed tunnel state is Disconnected and to Exiting if not,
\* and sends one Disconnect; a Disconnected report handled while Exiting sets
\* it to Finished, and one handled while Running leaves it Running.
C10_ShutdownProtocol ==
    /\ (event.kind \in {"Shutdown", "TriggerShutdown"} /\ event.pre.state = Running)
          => /\ state = IF event.pre.tunnel_state = Disconnected
                        THEN Finished ELSE Exiting
             /\ SentNow = <<Disconnect>>
    /\ (event.kind = "TunnelStateTransition" /\ event.arg = Disconnected)
          => /\ event.pre.state = Exiting => state = Finished
             /\ event.pre.state = Running => state = Running

\* C10: the Disconnected report that ends a shutdown was handled
C10_Witness ==
    /\ event.kind = "TunnelStateTransition"
    /\ event.arg = Disconnected
    /\ event.pre.state = Exiting
    /\ state = Finished
    /\ loop = "ok"

----------------------------------------------------------------------------
(* Properties of the Disconnecting state                                   *)

\* The intent the last Connect, Disconnect or Block consumed in Disconnecting
\* stands for, or the intent at entry when there was none
LastIntent ==
    IF dis.last = None THEN dis.entry
    ELSE IF dis.last[1].cmd = "Connect" THEN AfterReconnect(dis.last[1].parameters)
    ELSE IF dis.last[1].cmd = "Block"
    THEN AfterBlock(dis.last[1].reason, dis.last[1].allow_lan)
    ELSE AfterNothing

\* The state an intent leads to
StateOf(intent) ==
    IF intent.kind = "Reconnect" THEN ConnectingState(intent.parameters)
    ELSE IF intent.kind = "Block" THEN BlockedState(intent.reason, intent.allow_lan)
    ELSE DisconnectedState

\* C3, as claimed: the state entered when the tunnel has exited is the one the
\* last Connect, Disconnect or Block consumed in Disconnecting stands for:
\* Connecting with that Connect's parameters, Disconnected, or Blocked with
\* that Block's reason and allow_lan; the intent at entry if there was none.
C3_LastCommandAlone == dis.exited => ts = StateOf(LastIntent)

\* C3, amended: as claimed, except that a Connecting state is entered with
\* allow_lan set by the last AllowLan consumed after the Connect (or after
\* entry with a reconnect intent), and that a closed command channel turns an
\* intent to reconnect into Disconnected.
C3_LastCommandAndAllowLan ==
    dis.exited =>
        ts = IF LastIntent.kind = "Reconnect"
             THEN IF dis.closed THEN DisconnectedState
                  ELSE IF dis.lan = None THEN ConnectingState(LastIntent.parameters)
                  ELSE ConnectingState([LastIntent.parameters
                                          EXCEPT !.allow_lan = dis.lan[1]])
             ELSE StateOf(LastIntent)

\* C3: the tunnel exited after a Block, then a Connect, then an AllowLan that
\* differs from the Connect's had been consumed in Disconnecting
C3_Witness ==
    /\ dis.exited
    /\ dis.entry.kind = "Block"
    /\ dis.last # None
    /\ dis.last[1].cmd = "Connect"
    /\ dis.lan # None
    /\ dis.lan[1] # dis.last[1].parameters.allow_lan
    /\ ts.name = "Connecting"

----------------------------------------------------------------------------
(* Shutdown                                                                *)

\* The state machine is Disconnected, the daemon Finished, the loop returned Ok
ShutdownCompleted == ts = DisconnectedState /\ state = Finished /\ loop = "ok"

\* C11, as claimed: once a shutdown request has been handled while a tunnel is
\* live (the execution state is Exiting from then on), the state machine
\* reaches Disconnected, the execution state Finished and the main loop
\* returns Ok, whatever management commands are handled in between.  Stated so
\* that a finite run refutes it: the daemon never comes to rest in Exiting,
\* with its loop running and nothing left that scheduling guarantees.
C11_ShutdownCompletes == ~(state = Exiting /\ loop = "running" /\ Quiescent)

\* C11: where the daemon does come to rest in Exiting, a command handled after
\* the shutdown request has commanded the tunnel up again.
C11_RestsOnlyIfReconnected ==
    (state = Exiting /\ loop = "running" /\ Quiescent)
        => commanded \in {"Connect", "Block"}

\* C11: the daemon rests in Exiting with a tunnel that was started again
C11_Witness ==
    /\ state = Exiting
    /\ loop = "running"
    /\ Quiescent
    /\ ts.name \in {"Connecting", "Connected"}
    /\ alive

----------------------------------------------------------------------------
(* Exit of the management interface                                        *)

\* C12: handling ManagementInterfaceExited makes the main loop return the
\* error at once: the handler sends no tunnel command and does nothing else,
\* target and execution state are as they were, and from then on the loop has
\* returned: no queued event is handled, no command is sent and the daemon's
\* fields stay as they are.
C12_ManagementInterfaceExited ==
    /\ [](event.kind = "ManagementInterfaceExited" =>
            /\ loop = "err"
            /\ effects = <<>>
            /\ target_state = event.pre.target_state
            /\ state = event.pre.state)
    /\ [][loop = "err" =>
            /\ loop' = "err"
            /\ event'.kind = "none"
            /\ Len(rx') = Len(rx)
            /\ Len(cmdq') <= Len(cmdq)
            /\ target_state' = target_state
            /\ state' = state
            /\ commanded' = commanded]_vars

\* C12: the management interface exited while the target was Secured, the
\* tunnel up and a report still queued for the supervisor
C12_Witness ==
    /\ event.kind = "ManagementInterfaceExited"
    /\ target_state = Secured
    /\ ts.name \in {"Connecting", "Connected"}
    /\ rx # <<>>

----------------------------------------------------------------------------
(* Reconnect timers                                                        *)

\* The last handled event is the report of Blocked(AuthFailed)
AuthFailedHandled ==
    /\ event.kind = "TunnelStateTransition"
    /\ is_blocked(event.arg)
    /\ event.arg.details[1].reason = "auth_failed"

\* The timers the last handled event scheduled
ScheduledNow == Len(SelectSeq(effects, LAMBDA x : x.e = "schedule_reconnect"))

\* The queue got a command synthesized by a timer in this step
TimerPosted ==
    /\ Len(rx') = Len(rx) + 1
    /\ rx'[Len(rx')].kind = "SetTargetState"
    /\ rx'[Len(rx')].src = "timer"
    /\ rx'[Len(rx')].arg = Secured

\* C13: a handled Blocked(AuthFailed) report schedules exactly one timer and
\* any other handled event, the report of any other state and of Blocked for
\* any other reason included, schedules none; a timer that expires while the
\* daemon runs posts exactly one SetTargetState(Secured) and is gone, and
\* nothing else posts such a command.
C13_OneTimerPerAuthFailed ==
    /\ [](event.kind # "none" =>
            /\ ScheduledNow = IF AuthFailedHandled THEN 1 ELSE 0
            /\ timers = event.pre.timers + ScheduledNow)
    /\ [][timers' < timers =>
               /\ timers' = timers - 1
               /\ IF Closed THEN Len(rx') = Len(rx) ELSE TimerPosted]_vars
    /\ [][TimerPosted => timers' = timers - 1]_vars

\* C13: the one timer a Blocked(AuthFailed) report had scheduled has expired
\* and its command is queued for the supervisor
C13_Witness ==
    /\ rx # <<>>
    /\ rx[Len(rx)].src = "timer"
    /\ timers = 0
    /\ tunnel_state = Blocked(AuthFailed(Some("expired")))

\* The last handled event sent no Connect
NoConnect == \A i \in 1..Len(SentNow) : SentNow[i].cmd # "Connect"

\* C14, as claimed: once the target state is Unsecured it stays Unsecured and
\* no Connect is sent until a management client asks for Secured, even when a
\* reconnect timer scheduled by an earlier Blocked(AuthFailed) is pending: the
\* command such a timer posts, handled with the target Unsecured, leaves the
\* target Unsecured and sends no Connect.
C14_TimerDoesNotReconnect ==
    (event.src = "timer" /\ event.pre.target_state = Unsecured)
        => (target_state = Unsecured /\ NoConnect)

\* C14: what does hold: with the target Unsecured, only the request of a client
\* or the command of a timer makes it Secured or has a Connect sent; the
\* reports of the state machine never do.
C14_ReportsDoNotReconnect ==
    (event.src = "tunnel" /\ event.pre.target_state = Unsecured)
        => (target_state = Unsecured /\ SentNow = <<>>)

\* C14: the command of a timer was handled after a client had set the target
\* to Unsecured, and the tunnel was started again
C14_Witness ==
    /\ event.src = "timer"
    /\ event.pre.target_state = Unsecured
    /\ event.pre.state = Running
    /\ target_state = Secured
    /\ Len(SentNow) = 1
    /\ SentNow[1].cmd = "Connect"

----------------------------------------------------------------------------
(* Settings                                                                *)

\* The commands that change a setting
SettingsCommands ==
    {"SetAccount", "UpdateRelaySettings", "SetAllowLan", "SetAutoConnect",
     "SetOpenVpnMssfix", "SetEnableIpv6"}

\* The effects of the last handled event that are of kind e
EffectsNow(e) == SelectSeq(effects, LAMBDA x : x.e = e)

\* The last handled event tried to write the settings and failed
SaveFailedNow == event.kind \in SettingsCommands /\ EffectsNow("save_failed") # <<>>

\* C15, as claimed: when the durable write fails for a settings command, the
\* failure is logged and a reply is still delivered on the reply sink.
C15_ReplyOnSaveFailure ==
    SaveFailedNow => (Len(EffectsNow("log_error")) = 1 /\ Len(RepliesNow) = 1)

\* C15, amended: when the durable write fails for a settings command, the
\* failure is logged and that is all the handler does: no reply is delivered,
\* the reply sink is dropped unused.
C15_LoggedWithoutReply ==
    SaveFailedNow => (effects = <<[e |-> "save_failed"], [e |-> "log_error"]>>)

\* C15: the write of a changed IPv6 setting failed while the target was Secured
C15_Witness ==
    /\ event.kind = "SetEnableIpv6"
    /\ SaveFailedNow
    /\ event.arg # settings.enable_ipv6
    /\ target_state = Secured
    /\ RepliesNow = <<>>

\* The setting a command changes
FieldOf(kind) ==
    CASE kind = "SetAccount" -> "account_token"
      [] kind = "UpdateRelaySettings" -> "relay_settings"
      [] kind = "SetAllowLan" -> "allow_lan"
      [] kind = "SetAutoConnect" -> "auto_connect"
      [] kind = "SetOpenVpnMssfix" -> "openvpn_mssfix"
      [] kind = "SetEnableIpv6" -> "enable_ipv6"

\* The last handled event asked for a setting to get a value it did not have
MutationNow ==
    /\ event.kind \in SettingsCommands
    /\ event.arg # event.pre.settings[FieldOf(event.kind)]

\* Every Connect the last handled event sent is built from the settings
ConnectsFromSettings ==
    \A i \in 1..Len(SentNow) :
        SentNow[i].cmd = "Connect" => SentNow[i].parameters = FreshParameters

\* C16: a requested change of a setting is either written to the settings file
\* and broadcast to the subscribers, the broadcast carrying the new value, or
\* it is not in the settings afterwards and nothing is broadcast; the settings
\* in memory are always those of the file, GetSettings replies with them and
\* every Connect is built from them, so a change that was not written is seen
\* by no later read and enters no later tunnel command.
C16_WrittenAndBroadcastOrInvisible ==
    /\ settings = disk
    /\ MutationNow =>
          IF Persisted
          THEN /\ disk[FieldOf(event.kind)] = event.arg
               /\ EffectsNow("notify_settings")
                     = <<[e |-> "notify_settings", v |-> disk]>>
          ELSE /\ settings = event.pre.settings
               /\ EffectsNow("notify_settings") = <<>>
               /\ SentNow = <<>>
    /\ event.kind = "GetSettings" => RepliesNow = <<disk>>
    /\ event.kind # "none" => ConnectsFromSettings

\* C16: changed relay settings were written and broadcast, and the tunnel is
\* restarted towards the new endpoint
C16_Witness ==
    /\ event.kind = "UpdateRelaySettings"
    /\ MutationNow
    /\ Persisted
    /\ event.arg = Custom
    /\ settings.account_token # None
    /\ SentNow = <<Connect(FreshParameters)>>

\* C17: while a settings command is handled, a broadcast of the settings and a
\* tunnel command come only after the write of the change has succeeded; when
\* the write fails, or nothing is written, there is neither.
C17_BroadcastAndCommandAfterWrite ==
    event.kind \in SettingsCommands =>
        \A i \in 1..Len(effects) :
            effects[i].e \in {"notify_settings", "send"} =>
                \E j \in 1..(i - 1) : effects[j].e = "save"

\* C17: a changed allow-LAN setting was written, then broadcast, then sent to
\* the state machine
C17_Witness ==
    /\ event.kind = "SetAllowLan"
    /\ Len(effects) = 4
    /\ effects[1].e = "save"
    /\ effects[3].e = "notify_settings"
    /\ effects[4].e = "send"

----------------------------------------------------------------------------
(* Commands per event                                                      *)

\* C18: the supervisor sends at most one tunnel command per handled event,
\* whatever the event and whatever its own state, the start of the main loop
\* included.
C18_AtMostOneCommand == Len(SentNow) <= 1

\* C18: SetTargetState(Secured) without an account token, which sets the
\* target twice, sent the one Disconnect
C18_Witness ==
    /\ event.kind = "SetTargetState"
    /\ event.arg = Secured
    /\ event.pre.state = Running
    /\ event.pre.settings.account_token = None
    /\ SentNow = <<Disconnect>>

----------------------------------------------------------------------------
(* The Disconnecting state and the tunnel process                          *)

\* C19: the Disconnecting state is left only once the tunnel process it closed
\* has exited and the exit notification is consumed, whatever commands arrive
\* in the meantime; so neither Connecting nor Disconnected nor Blocked is
\* entered while the old process is alive, and no tunnel process is alive in
\* Disconnected or Blocked.
C19_LeftOnlyAfterExit ==
    /\ [][(ts.name = "Disconnecting" /\ ts'.name # "Disconnecting")
            => (~alive /\ dis'.exited)]_vars
    /\ [][(ts.name # "Connecting" /\ ts'.name = "Connecting") => ~alive]_vars
    /\ [](ts.name \in {"Disconnected", "Blocked"} => ~alive)

\* C19: a Connect was consumed in Disconnecting while the old tunnel process
\* was still alive, and the state is still Disconnecting
C19_Witness ==
    /\ ts.name = "Disconnecting"
    /\ alive
    /\ dis.last # None
    /\ dis.last[1].cmd = "Connect"
    /\ ts.after_disconnect.kind = "Reconnect"

\* This step queued exactly one report for the supervisor
OneReport ==
    /\ Len(rx') = Len(rx) + 1
    /\ rx'[Len(rx')].kind = "TunnelStateTransition"

\* The report this step queued
NewReport == rx'[Len(rx')].arg

\* The tag of an intent, as reported
TagOf(intent) ==
    CASE intent.kind = "Nothing" -> "nothing"
      [] intent.kind = "Block" -> "block"
      [] intent.kind = "Reconnect" -> "reconnect"

\* C20: entering Disconnecting reports exactly one transition,
\* Disconnecting(tag), with the tag of the intent at entry; while the state
\* is Disconnecting nothing more is reported, whatever becomes of the intent;
\* leaving it reports exactly one transition, that of the state entered.
\* (Reports go to the supervisor's queue for as long as that exists.)
C20_OneReportPerEntry ==
    /\ [][(~Closed /\ ts.name # "Disconnecting" /\ ts'.name = "Disconnecting")
            => /\ OneReport
               /\ NewReport.state = "disconnecting"
               /\ NewReport.details = <<TagOf(ts'.after_disconnect)>>]_vars
    /\ [][(ts.name = "Disconnecting" /\ ts'.name = "Disconnecting")
            => ~OneReport]_vars
    /\ [][(~Closed /\ ts.name = "Disconnecting" /\ ts'.name # "Disconnecting")
            => /\ OneReport
               /\ NewReport.state = Report(ts').state
               /\ NewReport = Report(ts')]_vars

\* C20: Disconnecting was entered with the intent to reconnect and its report
\* is queued
C20_Witness ==
    /\ ts.name = "Disconnecting"
    /\ dis.entry.kind = "Reconnect"
    /\ dis.last = None
    /\ rx # <<>>
    /\ rx[Len(rx)].arg.state = "disconnecting"
    /\ rx[Len(rx)].arg.details = <<"reconnect">>

----------------------------------------------------------------------------
(* The observed tunnel state                                               *)

\* C21: every handled TunnelStateTransition, in whatever execution state, is
\* broadcast exactly once as new_state, carrying that state, and becomes the
\* observed state; nothing else changes the observed state, which starts as
\* Disconnected; GetState replies with the observed state and does nothing
\* else.  So GetState and the last broadcast agree.
C21_StateBroadcastAndRead ==
    /\ [](event.kind = "TunnelStateTransition" =>
            /\ EffectsNow("notify_new_state")
                  = <<[e |-> "notify_new_state", v |-> event.arg]>>
            /\ tunnel_state = event.arg)
    /\ [](event.kind \notin {"none", "TunnelStateTransition"} =>
            /\ EffectsNow("notify_new_state") = <<>>
            /\ tunnel_state = event.pre.tunnel_state)
    /\ [](event.kind = "GetState" =>
            effects = <<[e |-> "reply", v |-> tunnel_state]>>)
    /\ [](loop = "init" => tunnel_state = Disconnected)
    /\ [][event'.kind = "none" => tunnel_state' = tunnel_state]_vars

\* C21: GetState was answered while Exiting with a state other than
\* Disconnected
C21_Witness ==
    /\ event.kind = "GetState"
    /\ state = Exiting
    /\ tunnel_state.state = "disconnecting"
    /\ RepliesNow = <<tunnel_state>>

----------------------------------------------------------------------------
(* The wire format                                                         *)

\* The discriminators the wire format is documented to use
StateTags == {"disconnected", "connecting", "connected", "disconnecting", "blocked"}
ActionTags == {"nothing", "block", "reconnect"}
ReasonTags == {"auth_failed", "ipv6_unavailable", "set_security_policy_error",
               "start_tunnel_error", "no_matching_relay"}

\* A document of the shape described: the discriminator under "state" and
\* the payload, if there is one, under "details"
WellFormed(j) ==
    /\ j.json = "object"
    /\ Len(j.members) \in {1, 2}
    /\ j.members[1][1] = "state"
    /\ j.members[1][2].json = "string"
    /\ j.members[1][2].str \in StateTags
    /\ Len(j.members) = 2 <=>
          j.members[1][2].str \in {"disconnecting", "blocked"}
    /\ Len(j.members) = 2 =>
          /\ j.members[2][1] = "details"
          /\ j.members[1][2].str = "disconnecting" =>
                /\ j.members[2][2].json = "string"
                /\ j.members[2][2].str \in ActionTags
          /\ j.members[1][2].str = "blocked" =>
                /\ j.members[2][2].json = "object"
                /\ j.members[2][2].members[1][1] = "reason"
                /\ j.members[2][2].members[1][2].json = "string"
                /\ j.members[2][2].members[1][2].str \in ReasonTags
                /\ Len(j.members[2][2].members) = 2 <=>
                      j.members[2][2].members[1][2].str = "auth_failed"
                /\ Len(j.members[2][2].members) = 2 =>
                      j.members[2][2].members[2][1] = "details"

\* C22: every TunnelStateTransition, with each action after disconnecting
\* and each block reason, AuthFailed with and without a message, is read
\* back from its encoding as the value that was written; two different
\* values have different encodings; the encoding has the snake_case
\* discriminator under "state" and the payload under "details".
C22_WireRoundTrip ==
    wire # Unused =>
        /\ wire.sent # None =>
              /\ WellFormed(wire.sent[1].value)
              /\ wire.value # wire.other =>
                    wire.sent[1].value # wire.sent[1].other
        /\ wire.received # None => wire.received[1] = Some(wire.value)

\* C22: AuthFailed with the message "null" was read back, and it was sent
\* next to AuthFailed without a message
C22_Witness ==
    /\ wire # Unused
    /\ wire.received # None
    /\ wire.value = NewtypeVariant(<<"blocked">>,
                        NewtypeVariant(<<"auth", "failed">>, Some("null")))
    /\ wire.other = NewtypeVariant(<<"blocked">>,
                        NewtypeVariant(<<"auth", "failed">>, None))
    /\ wire.received[1] = Some(wire.value)

----------------------------------------------------------------------------
(* Settings that are only persisted                                        *)

\* The fields of Settings
SettingsFields ==
    {"account_token", "relay_settings", "allow_lan", "auto_connect",
     "enable_ipv6", "openvpn_mssfix"}

\* C23: SetAutoConnect and SetOpenVpnMssfix only persist: handling either
\* sends no tunnel command, leaves the target state, the execution state, the
\* observed tunnel state and the recorded relay as they were, starts no
\* timer, and changes no setting other than its own.
C23_PersistOnly ==
    event.kind \in {"SetAutoConnect", "SetOpenVpnMssfix"} =>
        /\ SentNow = <<>>
        /\ target_state = event.pre.target_state
        /\ state = event.pre.state
        /\ tunnel_state = event.pre.tunnel_state
        /\ current_relay = event.pre.current_relay
        /\ timers = event.pre.timers
        /\ \A f \in SettingsFields \ {FieldOf(event.kind)} :
              settings[f] = event.pre.settings[f]
        /\ \A f \in SettingsFields \ {FieldOf(event.kind)} :
              disk[f] = event.pre.disk[f]

\* C23: a changed mssfix was written while the tunnel was up and the target
\* Secured
C23_Witness ==
    /\ event.kind = "SetOpenVpnMssfix"
    /\ Persisted
    /\ settings.openvpn_mssfix # event.pre.settings.openvpn_mssfix
    /\ target_state = Secured
    /\ tunnel_state.state = "connected"
    /\ settings.account_token # None

----------------------------------------------------------------------------
(* Settings that restart the tunnel                                        *)

\* The last handled event is UpdateRelaySettings, SetEnableIpv6 or SetAccount
\* with a token
RestartingCommand ==
    \/ event.kind \in {"UpdateRelaySettings", "SetEnableIpv6"}
    \/ event.kind = "SetAccount" /\ event.arg # None

\* C24: UpdateRelaySettings, SetEnableIpv6 and SetAccount with a token
\* reconnect if and only if the persisted value changed: when it changed the
\* settings are broadcast once and, the target being Secured and a token
\* present, one command restarts the tunnel; when it did not, nothing is
\* broadcast and no tunnel command is sent; and when the value given equals
\* the one held, the command is acknowledged and that is all.
C24_ReconnectIffChanged ==
    RestartingCommand =>
        /\ Persisted =>
              /\ disk[FieldOf(event.kind)] = event.arg
              /\ RepliesNow = <<"unit">>
              /\ Len(EffectsNow("notify_settings")) = 1
              /\ (target_state = Secured /\ settings.account_token # None) =>
                    /\ Len(SentNow) = 1
                    /\ SentNow[1].cmd \in {"Connect", "Block"}
        /\ ~Persisted =>
              /\ SentNow = <<>>
              /\ EffectsNow("notify_settings") = <<>>
        /\ ~MutationNow => effects = <<[e |-> "reply", v |-> "unit"]>>

\* C24: the relay settings were set to what they were while the target was
\* Secured and a token present, and the command was only acknowledged
C24_Witness ==
    /\ event.kind = "UpdateRelaySettings"
    /\ ~MutationNow
    /\ target_state = Secured
    /\ settings.account_token # None
    /\ tunnel_state.state = "connected"
    /\ RepliesNow = <<"unit">>
    /\ SentNow = <<>>

----------------------------------------------------------------------------
(* The current location                                                    *)

\* C25, as claimed: GetCurrentLocation is answered with the recorded relay's
\* location only while the observed tunnel state is Connected and the tunnel
\* runs to that relay; in every other case the request goes to GeoIP.
C25_RelayOnlyWhenConnected ==
    event.kind = "GetCurrentLocation" =>
        /\ RepliesNow # <<>> =>
              /\ tunnel_state.state = "connected"
              /\ ts.name = "Connected" => ts.parameters.endpoint = RepliesNow[1].ip
        /\ RepliesNow = <<>> => effects = <<[e |-> "geoip_request"]>>

\* C25, what the code does: GetCurrentLocation is answered with the recorded
\* relay whenever one is recorded, whatever the tunnel state, and goes to
\* GeoIP otherwise; the relay is recorded when a Connect to it is sent and
\* forgotten only when Disconnected is reported.
C25_RepliesFromRecordedRelay ==
    /\ [](event.kind = "GetCurrentLocation" =>
            /\ current_relay = event.pre.current_relay
            /\ effects = IF current_relay # None
                         THEN <<[e |-> "reply",
                                 v |-> [ip |-> current_relay[1],
                                        mullvad_exit_ip |-> TRUE]]>>
                         ELSE <<[e |-> "geoip_request"]>>)
    /\ [][current_relay' # current_relay =>
            IF current_relay' = None
            THEN event'.kind = "TunnelStateTransition" /\ tunnel_state' = Disconnected
            ELSE /\ Len(Sent(effects')) = 1
                 /\ Sent(effects')[1].cmd = "Connect"
                 /\ Sent(effects')[1].parameters.endpoint = current_relay'[1]]_vars

\* C25: the relay's location was the answer while the tunnel was up to a
\* custom endpoint
C25_Witness ==
    /\ event.kind = "GetCurrentLocation"
    /\ RepliesNow = <<[ip |-> "se-relay", mullvad_exit_ip |-> TRUE]>>
    /\ tunnel_state.state = "connected"
    /\ ts.name = "Connected"
    /\ ts.parameters.endpoint = "host"

----------------------------------------------------------------------------
(* The arguments of the OpenVPN subprocess                                 *)

\* The decimal text of the ports of the model
PortText(port) == IF port = 3333 THEN "3333" ELSE "1337"

\* Where the arguments of the remotes begin
RemotesAt(b) == IF b.config # None THEN 2 ELSE 0

\* C26: get_arguments returns "--config" and the path if a configuration
\* file is set, then "--remote", the address and the port for each remote in
\* the order given; a builder nothing was set on yields no argument; and a
\* call of remotes() puts its remotes in the place of the earlier ones,
\* leaving the configuration file alone.
C26_Arguments ==
    /\ [](builder # Unused /\ builder.call = "get_arguments" =>
            /\ Len(builder.arguments) = RemotesAt(builder) + 3 * Len(builder.remotes)
            /\ builder.config # None =>
                  /\ builder.arguments[1] = "--config"
                  /\ builder.arguments[2] = builder.config[1]
            /\ \A i \in 1..Len(builder.remotes) :
                  LET at == RemotesAt(builder) + 3 * (i - 1)
                  IN /\ builder.arguments[at + 1] = "--remote"
                     /\ builder.arguments[at + 2] = builder.remotes[i].address
                     /\ builder.arguments[at + 3] = PortText(builder.remotes[i].port)
            /\ (builder.config = None /\ builder.remotes = <<>>) =>
                  builder.arguments = <<>>)
    /\ [][builder # Unused /\ builder'.call = "remotes" =>
            /\ builder'.remotes = builder'.arg
            /\ builder'.config = builder.config]_vars
    /\ [][builder # Unused /\ builder'.call # "remotes" =>
            builder'.remotes = builder.remotes]_vars

\* C26: the arguments were asked for after a configuration file was set and
\* two remotes were replaced by one
C26_Witness ==
    /\ builder # Unused
    /\ builder.call = "get_arguments"
    /\ builder.calls = 4
    /\ builder.arguments = <<"--config", "b.conf", "--remote", "fe80::1", "1337">>

----------------------------------------------------------------------------
(* The choice of the DNS backend on Linux                                  *)

\* TALPID_DNS_MODULE is set to the text t
DnsModuleIs(t) == dns.dns_module = Some([utf8 |-> TRUE, text |-> t])

\* C27: with TALPID_DNS_MODULE set to "static-file" the static resolv.conf
\* backend is made and with "resolvconf" the resolvconf backend, and if that
\* one cannot be made the other is not tried; with the variable absent or of
\* any other value resolvconf is tried first and the static resolv.conf if it
\* fails; NoDnsSettingsManager is the error only when both were tried and
\* failed.
C27_BackendSelection ==
    (dns # Unused /\ dns.made # None) =>
        /\ DnsModuleIs("static-file") =>
              dns.made[1] = [ok |-> dns.static_ok, value |-> "StaticResolvConf"]
        /\ DnsModuleIs("resolvconf") =>
              dns.made[1] = [ok |-> dns.resolvconf_ok, value |-> "Resolvconf"]
        /\ ~(DnsModuleIs("static-file") \/ DnsModuleIs("resolvconf")) =>
              /\ dns.resolvconf_ok => dns.made[1] = Ok("Resolvconf")
              /\ (~dns.resolvconf_ok /\ dns.static_ok) =>
                    dns.made[1] = Ok("StaticResolvConf")
              /\ (~dns.resolvconf_ok /\ ~dns.static_ok) =>
                    dns.made[1] = Err("NoDnsSettingsManager")
        /\ dns.made[1] = Err("NoDnsSettingsManager") =>
              /\ ~dns.resolvconf_ok
              /\ ~dns.static_ok
              /\ ~(DnsModuleIs("static-file") \/ DnsModuleIs("resolvconf"))

\* C27: with a value that is no backend's name and resolvconf unusable, the
\* static resolv.conf was made and then used
C27_Witness ==
    /\ dns # Unused
    /\ DnsModuleIs("systemd-resolved")
    /\ ~dns.resolvconf_ok
    /\ dns.made = Some(Ok("StaticResolvConf"))
    /\ dns.call = "StaticResolvConf::set_dns ok"

----------------------------------------------------------------------------
(* Recovery of the DNS settings on Windows                                 *)

\* The last call on the DNS monitor
WinDnsDid(op) == windns # Unused /\ windns.call.op = op

\* C28: a backup found when WinDns is constructed is used to restore the
\* DNS settings and is removed only after that succeeded; when reading or
\* restoring fails the backup stays and the construction succeeds all the
\* same; after a successful reset_dns whose removal of the backup succeeds
\* there is no backup; and a backup comes into being only in set_dns and
\* goes only in a successful reset or a recovery.
C28_BackupRecovery ==
    /\ [](WinDnsDid("new") =>
            LET init_ok == windns.call.ok[1]
                read_ok == windns.call.ok[2]
                recover_ok == windns.call.ok[3]
                remove_ok == windns.call.ok[4]
                pre == windns.call.pre
            IN /\ windns.result.ok = init_ok
               /\ windns.constructed = init_ok
               /\ (init_ok /\ pre # None /\ read_ok /\ recover_ok) =>
                     /\ windns.system = pre[1]
                     /\ windns.backup = IF remove_ok THEN None ELSE pre
               /\ ~(init_ok /\ pre # None /\ read_ok /\ recover_ok) =>
                     /\ windns.backup = pre
                     /\ windns.system = windns.call.was
               /\ (init_ok /\ ~(read_ok /\ (pre # None => recover_ok /\ remove_ok))) =>
                     windns.logged)
    /\ [](WinDnsDid("reset_dns") =>
            /\ windns.result.ok = windns.call.ok[1]
            /\ (windns.call.ok[1] /\ windns.call.ok[2]) => windns.backup = None
            /\ ~(windns.call.ok[1] /\ windns.call.ok[2]) =>
                  windns.backup = windns.call.pre)
    /\ [][(windns # Unused /\ windns'.backup # windns.backup) =>
            IF windns'.backup # None
            THEN windns'.call.op = "set_dns" /\ windns'.backup = Some(windns.system)
            ELSE /\ windns'.call.op \in {"new", "reset_dns"}
                 /\ windns'.result.ok
                 /\ windns'.system # TunnelDns]_vars

\* C28: restoring from the backup failed, the backup stayed and the
\* construction succeeded with the tunnel's settings still in place
C28_Witness ==
    /\ WinDnsDid("new")
    /\ windns.call.pre = Some("manual")
    /\ windns.call.ok = <<TRUE, TRUE, FALSE, TRUE>>
    /\ windns.backup = Some("manual")
    /\ windns.system = TunnelDns
    /\ windns.constructed

----------------------------------------------------------------------------
(* The closed command channel in Disconnecting                             *)

\* C29: the error of the command stream, consumed in Disconnecting, turns
\* the intent to reconnect into Nothing, as a Disconnect would, and leaves
\* the intents Nothing and Block as they are; it reports nothing and the
\* state stays Disconnecting; after it the state entered when the tunnel has
\* exited is Disconnected, or Blocked if the intent was to block, never
\* Connecting.
C29_ChannelError ==
    /\ [][CommandsClosed =>
            /\ ts'.name = "Disconnecting"
            /\ ts'.after_disconnect.kind
                  = IF ts.after_disconnect.kind = "Reconnect" THEN "Nothing"
                    ELSE ts.after_disconnect.kind
            /\ ts.after_disconnect.kind # "Reconnect" =>
                  ts'.after_disconnect = ts.after_disconnect
            /\ ts.after_disconnect.kind = "Reconnect" =>
                  ts'.after_disconnect
                      = handle_commands(ts.after_disconnect, Disconnect)
            /\ rx' = rx]_vars
    /\ []((dis.closed /\ dis.exited) =>
            /\ ts.name \in {"Disconnected", "Blocked"}
            /\ LastIntent.kind # "Block" => ts = DisconnectedState)

\* C29: the channel was closed while the intent was to reconnect, and the
\* tunnel's exit led to Disconnected
C29_Witness ==
    /\ dis.closed
    /\ dis.exited
    /\ LastIntent.kind = "Reconnect"
    /\ ts = DisconnectedState

----------------------------------------------------------------------------
(* AllowLan in Disconnecting                                               *)

\* This step consumes an AllowLan in Disconnecting
AllowLanConsumed ==
    /\ DisconnectingCommand
    /\ cmdq[1].cmd = "AllowLan"

\* C30: an AllowLan(a) consumed in Disconnecting with the intent
\* Reconnect(p) makes the intent Reconnect(p'), p' being p with allow_lan = a
\* and nothing else changed; it leaves the intents Nothing and Block as they
\* are, so never changes the kind of the intent; it reports nothing and the
\* state stays Disconnecting; and the Connecting state entered when the
\* tunnel has exited with that intent has allow_lan = a.
C30_AllowLanInDisconnecting ==
    /\ [][AllowLanConsumed =>
            /\ ts'.name = "Disconnecting"
            /\ ts'.after_disconnect.kind = ts.after_disconnect.kind
            /\ ts.after_disconnect.kind = "Reconnect" =>
                  /\ ts'.after_disconnect.parameters.allow_lan = cmdq[1].allow_lan
                  /\ \A f \in {"endpoint", "options", "username"} :
                        ts'.after_disconnect.parameters[f]
                            = ts.after_disconnect.parameters[f]
            /\ ts.after_disconnect.kind # "Reconnect" =>
                  ts'.after_disconnect = ts.after_disconnect
            /\ rx' = rx
            /\ alive' = alive]_vars
    /\ [][(ts.name = "Disconnecting" /\ ts'.name = "Connecting") =>
            ts'.parameters = ts.after_disconnect.parameters]_vars
    /\ []((dis.exited /\ dis.lan # None /\ ts.name = "Connecting") =>
            ts.parameters.allow_lan = dis.lan[1])

\* C30: Disconnecting was entered to reconnect without access to the LAN,
\* only an AllowLan(TRUE) was consumed there, and the Connecting state
\* entered allows the LAN
C30_Witness ==
    /\ dis.exited
    /\ dis.entry.kind = "Reconnect"
    /\ ~dis.entry.parameters.allow_lan
    /\ dis.last = None
    /\ dis.lan = Some(TRUE)
    /\ ts.name = "Connecting"
    /\ ts.parameters.allow_lan
    /\ ts.parameters.endpoint = dis.entry.parameters.endpoint

----------------------------------------------------------------------------
(* SetTargetState                                                          *)

\* The last handled event left the daemon's fields as it found them
FieldsKept ==
    /\ target_state = event.pre.target_state
    /\ state = event.pre.state
    /\ tunnel_state = event.pre.tunnel_state
    /\ settings = event.pre.settings
    /\ disk = event.pre.disk
    /\ current_relay = event.pre.current_relay
    /\ timers = event.pre.timers

\* C31: SetTargetState(s) handled while Running, from a client or from a
\* reconnect timer, sends a tunnel command if and only if s differs from the
\* target state or the observed tunnel state is Blocked, and then exactly
\* one; otherwise it replies Ok, sends nothing and changes nothing, as when
\* Secured is asked for while the target is Secured and the tunnel is
\* observed Connecting, Connected or Disconnecting.
C31_CommandIffChangedOrBlocked ==
    (event.kind = "SetTargetState" /\ event.pre.state = Running) =>
        LET acts == \/ event.arg # event.pre.target_state
                    \/ event.pre.tunnel_state.state = "blocked"
        IN /\ acts => Len(SentNow) = 1
           /\ ~acts =>
                 /\ effects = <<[e |-> "reply", v |-> "Ok"]>>
                 /\ FieldsKept

\* C31: a timer's SetTargetState(Secured) was handled while the target was
\* Secured and the tunnel observed Connecting, and did nothing but reply
C31_Witness ==
    /\ event.kind = "SetTargetState"
    /\ event.src = "timer"
    /\ event.pre.state = Running
    /\ event.pre.target_state = Secured
    /\ event.pre.tunnel_state.state = "connecting"
    /\ effects = <<[e |-> "reply", v |-> "Ok"]>>

\* SetTargetState(Secured) was handled while Running with the target already
\* Secured: it had been handled before, by Daemon::run or as a command, and
\* the target has not been changed since
SecuredAgain ==
    /\ event.kind = "SetTargetState"
    /\ event.arg = Secured
    /\ event.pre.state = Running
    /\ event.pre.target_state = Secured

\* C32, as claimed: SetTargetState(Secured) is idempotent: handled again,
\* whatever reports of the state machine were handled in between, it sends
\* no tunnel command and changes nothing.
C32_SecuredAgainDoesNothing == SecuredAgain => (SentNow = <<>> /\ FieldsKept)

\* C32, what the code does: SetTargetState(Secured) handled again sends a
\* command exactly when the observed tunnel state is Blocked, a Connect or a
\* Block for want of a relay, and the target stays Secured.
C32_SecuredAgainActsWhenBlocked ==
    SecuredAgain =>
        /\ target_state = Secured
        /\ settings.account_token # None
        /\ IF event.pre.tunnel_state.state = "blocked"
           THEN /\ Len(SentNow) = 1
                /\ SentNow[1].cmd \in {"Connect", "Block"}
           ELSE SentNow = <<>> /\ FieldsKept

\* C32: SetTargetState(Secured) handled again sent a Connect while the
\* state machine was already running a tunnel, which that Connect tears down
C32_Witness ==
    /\ SecuredAgain
    /\ Len(SentNow) = 1
    /\ SentNow[1].cmd = "Connect"
    /\ ts.name \in {"Connecting", "Connected"}
    /\ alive

----------------------------------------------------------------------------
(* The order of the effects of one event                                   *)

\* The last handled event is a management command that wrote the settings
\* and sent a tunnel command
WroteAndCommanded ==
    /\ event.kind \in SettingsCommands
    /\ Persisted
    /\ SentNow # <<>>

\* The kinds of the effects of the last handled event, in order
EffectKinds == [i \in 1..Len(effects) |-> effects[i].e]

\* C33, as claimed: a management command that writes the settings and sends
\* a tunnel command has its effects in the order durable write, tunnel
\* command, reply, broadcast of the settings.
C33_WriteCommandReplyBroadcast ==
    WroteAndCommanded => EffectKinds = <<"save", "send", "reply", "notify_settings">>

\* C33, amended: a management command that writes the settings and sends a
\* tunnel command has its effects in the order durable write, reply,
\* broadcast of the settings, tunnel command.
C33_WriteReplyBroadcastCommand ==
    WroteAndCommanded => EffectKinds = <<"save", "reply", "notify_settings", "send">>

\* C33: the account token was cleared while the target was Secured: written,
\* acknowledged, broadcast, and then the tunnel was told to disconnect
C33_Witness ==
    /\ event.kind = "SetAccount"
    /\ event.arg = None
    /\ Persisted
    /\ SentNow = <<Disconnect>>
    /\ effects[Len(effects)].e = "send"

----------------------------------------------------------------------------
(* The status reports of the Windows service                               *)

\* C34: of the reports the service made, every report of a pending state
\* carries a checkpoint greater than that of every earlier report of a
\* pending state, the service thread and the control handler reporting
\* through clones that share the counter; every report of another state
\* carries checkpoint 0; and Stop and Preshutdown are accepted in Running and
\* Paused only.
C34_Checkpoints ==
    service # Unused =>
        /\ \A i \in 1..Len(service.reports) :
              LET r == service.reports[i]
              IN /\ r.current_state \in PendingStates =>
                       \A j \in 1..(i - 1) :
                           service.reports[j].current_state \in PendingStates =>
                               service.reports[j].checkpoint < r.checkpoint
                 /\ r.current_state \notin PendingStates => r.checkpoint = 0
                 /\ r.controls_accepted # {} => r.current_state \in {"Running", "Paused"}
        /\ \A st \in ServiceStates :
              IF st \in {"Running", "Paused"}
              THEN accepted_controls_by_state(st) = {"Stop", "Preshutdown"}
              ELSE accepted_controls_by_state(st) = {}

\* C34: the control handler reported StopPending twice after the service
\* thread had reported StartPending and Running
C34_Witness ==
    /\ service # Unused
    /\ Len(service.reports) >= 4
    /\ service.reports[1].current_state = "StartPending"
    /\ service.reports[2].current_state = "Running"
    /\ service.reports[3].current_state = "StopPending"
    /\ service.reports[4].current_state = "StopPending"
    /\ service.reports[4].checkpoint = 3

----------------------------------------------------------------------------
(* Target state and account token                                          *)

\* C35: whenever the target state is Secured an account token is set in the
\* settings in memory, after the start of the main loop and after every
\* event: no sequence of commands leaves the target Secured without a token.
C35_SecuredHasToken == target_state = Secured => settings.account_token # None

\* C35: SetTargetState(Secured) was refused for want of a token and the
\* target is Unsecured
C35_Witness ==
    /\ event.kind = "SetTargetState"
    /\ event.arg = Secured
    /\ event.pre.state = Running
    /\ settings.account_token = None
    /\ RepliesNow = <<"Err">>
    /\ target_state = Unsecured

----------------------------------------------------------------------------
(* Commands after the shutdown request                                     *)

\* An event was handled with the execution state past Running
HandledInShutdown == event.kind # "none" /\ event.pre.state \in {Exiting, Finished}

\* C36, as claimed: once the shutdown has begun (the execution state is
\* Exiting or Finished) no handled event sends Connect or Block, whether it is
\* SetTargetState, SetAccount, UpdateRelaySettings, SetEnableIpv6 or a timer.
C36_NoStartAfterShutdown == HandledInShutdown => NoConnectOrBlock

\* C36: what holds after the shutdown has begun: SetTargetState, from a client
\* or from the reconnect timer, sends nothing and leaves the target alone;
\* Connect or Block is sent only by a setter whose value changed.
C36_OnlySettersStartAfterShutdown ==
    HandledInShutdown =>
        /\ event.kind = "SetTargetState" =>
              /\ SentNow = <<>>
              /\ target_state = event.pre.target_state
        /\ ~NoConnectOrBlock =>
              /\ event.kind \in {"SetAccount", "UpdateRelaySettings", "SetEnableIpv6"}
              /\ settings # event.pre.settings
              /\ event.pre.target_state = Secured

\* C36: a setter handled in Exiting has sent Connect or Block
C36_Witness ==
    /\ event.kind \in {"SetAccount", "UpdateRelaySettings", "SetEnableIpv6"}
    /\ event.pre.state = Exiting
    /\ ~NoConnectOrBlock

----------------------------------------------------------------------------
(* The daemon execution state moves forward                                *)

\* Running, Exiting, Finished in their order
Rank(s) == IF s = Running THEN 0 ELSE IF s = Exiting THEN 1 ELSE 2

\* C37: the execution state only moves forward along Running, Exiting,
\* Finished: no step returns it to an earlier state, Finished is absorbing, a
\* shutdown request handled in Exiting or Finished leaves it as it is, and
\* Exiting becomes Finished only by handling a Disconnected transition.
C37_ForwardOnly ==
    /\ [][/\ Rank(state') >= Rank(state)
          /\ state = Finished => state' = Finished
          /\ (event'.kind \in {"Shutdown", "TriggerShutdown"} /\ state # Running)
                => state' = state
          /\ (state = Exiting /\ state' = Finished)
                => /\ event'.kind = "TunnelStateTransition"
                   /\ event'.arg = Disconnected]_vars
    /\ [](\A t \in {Disconnected, Connecting, Connected} :
            /\ shutdown(Exiting, t) = Exiting
            /\ shutdown(Finished, t) = Finished
            /\ disconnected(Finished) = Finished
            /\ disconnected(Running) = Running)

\* C37: a shutdown request was handled again in Exiting and left it Exiting
C37_Witness ==
    /\ event.kind \in {"Shutdown", "TriggerShutdown"}
    /\ event.pre.state = Exiting
    /\ state = Exiting

----------------------------------------------------------------------------
(* AllowLan consumed during the teardown                                   *)

\* Disconnecting was left after an AllowLan that no other command followed
LeftAfterAllowLan == dis.exited /\ dis.lan # None

\* C38, as claimed: an AllowLan(a) consumed in Disconnecting is never lost:
\* the Connecting or Blocked state entered when the tunnel has exited has
\* allow_lan = a, unless a command with its own allow_lan was consumed later.
C38_AllowLanNeverLost ==
    (LeftAfterAllowLan /\ ts.name \in {"Connecting", "Blocked"}) =>
        \/ (ts.name = "Connecting" /\ ts.parameters.allow_lan = dis.lan[1])
        \/ (ts.name = "Blocked" /\ ts.allow_lan = dis.lan[1])

\* C38: what holds: the Connecting state entered has allow_lan = a; the
\* Blocked state entered has the allow_lan of the Block that set the intent,
\* whatever a was.
C38_AllowLanKeptForReconnectOnly ==
    LeftAfterAllowLan =>
        /\ ts.name = "Connecting" => ts.parameters.allow_lan = dis.lan[1]
        /\ ts.name = "Blocked" =>
              /\ LastIntent.kind = "Block"
              /\ ts.allow_lan = LastIntent.allow_lan

\* C38: Blocked was entered without access to the LAN although AllowLan(TRUE)
\* was the last command consumed in Disconnecting
C38_Witness ==
    /\ LeftAfterAllowLan
    /\ dis.lan = Some(TRUE)
    /\ ts.name = "Blocked"
    /\ ~ts.allow_lan

----------------------------------------------------------------------------
(* The tag reported for Disconnecting and the state reported next          *)

\* The state machine leaves Disconnecting and reports the state it enters
LeavesDisconnecting ==
    ~Closed /\ ts.name = "Disconnecting" /\ ts'.name # "Disconnecting"

----------------------------------------------------------------------------
(* The return of the main loop                                             *)

\* No command on the channel would start a tunnel or block
NoStartInFlight == \A i \in 1..Len(cmdq) : cmdq[i].cmd \notin {"Connect", "Block"}

\* C40, as claimed: when the main loop has returned Ok the state machine is
\* Disconnected, no tunnel process is alive and no Connect or Block sent
\* earlier is still on the command channel: the execution state does not
\* become Finished before that.
C40_ReturnsWhenTornDown ==
    (loop = "ok" /\ event.kind # "none") =>
        /\ state = Finished
        /\ ts.name = "Disconnected"
        /\ ~alive
        /\ NoStartInFlight

\* C40: what holds when the main loop has returned Ok: the execution state
\* is Finished and the tunnel state the supervisor has observed, which is
\* the last report it handled, is Disconnected.
C40_ReturnsWhenObservedDisconnected ==
    loop = "ok" => (state = Finished /\ tunnel_state = Disconnected)

\* C40: the main loop has returned Ok and the state machine has since
\* started a tunnel from a Connect that was in flight
C40_Witness ==
    /\ loop = "ok"
    /\ state = Finished
    /\ ts.name = "Connecting"
    /\ alive
    /\ cmdq = <<>>

====
